---- MODULE Spec2Model ----
(***************************************************************************)
(* Model of the real-time chat core of the SNS backend: the in-process     *)
(* connection registry (ConnectionManager), the websocket session handler  *)
(* (websocket_endpoint) with its per-message pipeline, and the friendship  *)
(* rows the pipeline updates.                                              *)
(*                                                                         *)
(* A websocket object is identified by the session that owns it, so the    *)
(* elements of Sessions serve both as session ids and as channel handles.  *)
(* Coroutines run on one event loop: an action is the code a coroutine     *)
(* executes between two suspension points (await accept / receive_text /   *)
(* send_text).                                                             *)
(***************************************************************************)
EXTENDS Integers, Sequences, FiniteSets, TLC

\* ---------------------------------------------------------------- bounds
NumSessions == 3            \* websockets of SpecRegistry
RegistryMessages == 1       \* rows stored under SpecRegistry
PipelineSessions == 2       \* websockets of Spec
MaxMessages == 2            \* rows stored under Spec
RelationshipSessions == 1   \* websockets of SpecRelationship
MaxStored == 3              \* rows of the messages table SpecInbox starts from
MaxPage == 3                \* largest skip and limit of a history request
NumRankUsers == 3           \* users of SpecRanking
FewMessages == 3            \* rows of a short messages table of SpecRanking
ManyMessages == 21          \* rows of a long messages table of SpecRanking
MaxLimit == 2               \* largest limit of a ranking request
MaxDays == 3                \* largest window of a ranking request
MaxSentiments == 2          \* sentiment scores handed to calculate_intimacy
SystemSessions == 1         \* websockets of SpecSystem
SystemMessages == 2         \* rows stored under SpecSystem

\* ------------------------------------------------------------- constants
WS_1008_POLICY_VIOLATION == 1008
NonexistentId == 99999
IntimacyCap == 1000         \* 100.0, intimacy_score is kept in tenths
IntimacyStep == 1           \* 0.1 in tenths

Sessions == 1..NumSessions
Users == {1, 2}                          \* rows of the users table
UserIds == Users \cup {NonexistentId}    \* ids a client may present
None == "None"

\* Texts a client may put on the wire.
ObjHi == "{\"content\": \"hi\"}"
ObjEmpty == "{\"content\": \"\"}"
ObjBlank == "{\"content\": \" \"}"
ObjNoKey == "{}"
RawTexts == {ObjHi, ObjEmpty, ObjBlank, ObjNoKey, "hi", "", " ", "123"}

TokenKinds == {"valid", "invalid", "nosub", "badsub"}
Subjects == {"1", "2", "99999"}          \* the sub claim of a well-formed token

VARIABLES
    pc,                 \* position of each session's coroutine
    user_id,            \* local of the session: the authenticated user (0: unset)
    friend_id,          \* local of the session: the path parameter (0: unset)
    closeCode,          \* status the server closed the transport with (0: none)
    accepted,           \* handshake accepted on the websocket
    active_connections, \* ConnectionManager.active_connections
    messages,           \* the messages table, in insertion order
    friendships,        \* the friendships table, in insertion order
    delivered,          \* per websocket: payloads send_text handed to the client
    iter,               \* frame of a running send_personal_message call
    response_data,      \* the outbound payload of the event in progress
    last,               \* history: the step taken last, when it skipped a
                        \* text or ended a session
    sendStart,          \* history: channels registered under the target when
                        \* the running send_personal_message call started
    origin,             \* history: the session that stored each row of messages
    requests,           \* add_friend requests between their lookup and their insert
    response            \* the body of the HTTP response returned last

vars == <<pc, user_id, friend_id, closeCode, accepted, active_connections,
          messages, friendships, delivered, iter, response_data, last,
          sendStart, origin, requests, response>>

\* the state of the websocket sessions and of the registry
chatVars == <<pc, user_id, friend_id, closeCode, accepted, active_connections,
              delivered, iter, response_data, last, sendStart, origin>>

\* ------------------------------------------------------- sequence helpers
InSeq(x, seq) == \E i \in 1..Len(seq) : seq[i] = x

FirstIndex(x, seq) == CHOOSE i \in 1..Len(seq) :
                          seq[i] = x /\ \A j \in 1..(i - 1) : seq[j] # x

\* list.remove(x): drops the first occurrence
ListRemove(seq, x) ==
    LET k == FirstIndex(x, seq)
    IN  [i \in 1..(Len(seq) - 1) |-> IF i < k THEN seq[i] ELSE seq[i + 1]]

Range(seq) == {seq[i] : i \in 1..Len(seq)}

\* ------------------------------------------------------ ConnectionManager
EmptyDict == [u \in {} |-> <<>>]

\* the registration half of connect(): lines 27-29
register(conns, websocket, uid) ==
    LET base == IF uid \notin DOMAIN conns
                THEN [u \in DOMAIN conns \cup {uid} |->
                         IF u = uid THEN <<>> ELSE conns[u]]
                ELSE conns
    IN  [base EXCEPT ![uid] = Append(@, websocket)]

\* mutant of connect: registers before awaiting the handshake
connect_registersFirst(conns, websocket, uid, acceptOk) ==
    register(conns, websocket, uid)

\* connect(): the registry after the call, given whether accept() returned
connect(conns, websocket, uid, acceptOk) ==
    IF acceptOk THEN register(conns, websocket, uid) ELSE conns

\* mutant of disconnect: leaves the emptied list under its key
disconnect_keepsEmpty(conns, websocket, uid) ==
    IF uid \in DOMAIN conns /\ InSeq(websocket, conns[uid])
    THEN [conns EXCEPT ![uid] = ListRemove(conns[uid], websocket)]
    ELSE conns

\* mutant of disconnect: an absent websocket removes the last one of the list
disconnect_removesLast(conns, websocket, uid) ==
    IF uid \in DOMAIN conns
    THEN LET lst == IF InSeq(websocket, conns[uid])
                    THEN ListRemove(conns[uid], websocket)
                    ELSE SubSeq(conns[uid], 1, Len(conns[uid]) - 1)
         IN  IF lst = <<>>
             THEN [u \in DOMAIN conns \ {uid} |-> conns[u]]
             ELSE [conns EXCEPT ![uid] = lst]
    ELSE conns

disconnect(conns, websocket, uid) ==
    IF uid \in DOMAIN conns
    THEN LET lst == IF InSeq(websocket, conns[uid])
                    THEN ListRemove(conns[uid], websocket)
                    ELSE conns[uid]
         IN  IF lst = <<>>
             THEN [u \in DOMAIN conns \ {uid} |-> conns[u]]
             ELSE [conns EXCEPT ![uid] = lst]
    ELSE conns

RECURSIVE disconnectAll(_, _, _)
\* the clean-up loop of send_personal_message: lines 65-66
disconnectAll(conns, broken, uid) ==
    IF broken = <<>> THEN conns
    ELSE disconnectAll(disconnect(conns, Head(broken), uid), Tail(broken), uid)

\* every websocket registered under uid
Channels(conns, uid) == IF uid \in DOMAIN conns THEN Range(conns[uid]) ELSE {}

Registered(conns) == UNION {Range(conns[u]) : u \in DOMAIN conns}

\* ------------------------------------------------------------- security
\* decode_access_token: the claims of a token; ok is FALSE when jwt.decode
\* raises and the function returns None
decode_access_token(tok) ==
    CASE tok.kind = "invalid" -> [ok |-> FALSE, claims |-> [x \in {} |-> None]]
      [] tok.kind = "nosub"   -> [ok |-> TRUE, claims |-> [exp |-> "later"]]
      [] tok.kind = "badsub"  -> [ok |-> TRUE, claims |-> [sub |-> "abc", exp |-> "later"]]
      [] OTHER                -> [ok |-> TRUE, claims |-> [sub |-> tok.sub, exp |-> "later"]]

\* payload.get("sub")
PayloadSub(claims) == IF "sub" \in DOMAIN claims THEN claims.sub ELSE None

\* int(user_id_str): 0 stands for ValueError / TypeError
IntOf(str) ==
    CASE str = "1" -> 1
      [] str = "2" -> 2
      [] str = "99999" -> NonexistentId
      [] OTHER -> 0

\* mutant of AuthenticatedUser: the friend is not looked up
AuthenticatedUser_skipsFriend(tok, fid) ==
    LET payload == decode_access_token(tok)
        refuse == [ok |-> FALSE, user_id |-> 0]
    IN  IF ~payload.ok THEN refuse
        ELSE IF PayloadSub(payload.claims) = None THEN refuse
        ELSE IF IntOf(PayloadSub(payload.claims)) = 0 THEN refuse
        ELSE IF IntOf(PayloadSub(payload.claims)) \notin Users THEN refuse
        ELSE [ok |-> TRUE, user_id |-> IntOf(PayloadSub(payload.claims))]

\* chat.py lines 38-64: ok and the user id of the session, or the refusal
AuthenticatedUser(tok, fid) ==
    LET payload == decode_access_token(tok)
        refuse == [ok |-> FALSE, user_id |-> 0]
    IN  IF ~payload.ok THEN refuse
        ELSE IF PayloadSub(payload.claims) = None THEN refuse
        ELSE IF IntOf(PayloadSub(payload.claims)) = 0 THEN refuse
        ELSE IF IntOf(PayloadSub(payload.claims)) \notin Users THEN refuse
        ELSE IF fid \notin Users THEN refuse
        ELSE [ok |-> TRUE, user_id |-> IntOf(PayloadSub(payload.claims))]

\* --------------------------------------------------------- inbound parsing
\* json.loads on the texts of RawTexts: the decoded value and its type,
\* or the JSONDecodeError
json_loads(text) ==
    CASE text = ObjHi    -> [raises |-> None, type |-> "dict", value |-> [content |-> "hi"]]
      [] text = ObjEmpty -> [raises |-> None, type |-> "dict", value |-> [content |-> ""]]
      [] text = ObjBlank -> [raises |-> None, type |-> "dict", value |-> [content |-> " "]]
      [] text = ObjNoKey -> [raises |-> None, type |-> "dict", value |-> [x \in {} |-> ""]]
      [] text = "123"    -> [raises |-> None, type |-> "int", value |-> [x \in {} |-> ""]]
      [] OTHER           -> [raises |-> "JSONDecodeError", type |-> None, value |-> [x \in {} |-> ""]]

\* chat.py lines 75-80: the content of an inbound text, or the exception
\* that escapes the inner try
ParseContent(text) ==
    LET r == json_loads(text)
    IN  IF r.raises = "JSONDecodeError"
        THEN [raises |-> None, content |-> text]
        ELSE IF r.type # "dict"
        THEN [raises |-> "AttributeError", content |-> None]
        ELSE [raises |-> None,
              content |-> IF "content" \in DOMAIN r.value
                          THEN r.value.content ELSE ""]

\* mutant of Falsy: the loop has no `if not content: continue`
Falsy_never(content) == FALSE

\* Python truthiness of a str
Falsy(content) == content = ""

\* ------------------------------------------------------------- friendships
\* the row of the unordered pair, 0 when there is none (.first())
FindFriendship(rows, a, b) ==
    LET hits == {i \in 1..Len(rows) :
                    \/ rows[i].user_id = a /\ rows[i].friend_id = b
                    \/ rows[i].user_id = b /\ rows[i].friend_id = a}
    IN  IF hits = {} THEN 0 ELSE CHOOSE i \in hits : \A j \in hits : i <= j

Min(a, b) == IF a <= b THEN a ELSE b

\* the NULL of a nullable numeric column
Unset == -1

\* `x or 0`, and the `is None` test of lines 112-113
OrZero(x) == IF x = Unset THEN 0 ELSE x

\* mutant of BumpFriendship: the lookup matches only a row the sender created
BumpFriendship_oneWay(rows, a, b) ==
    LET i == FindFriendship(rows, a, b)
    IN  IF i = 0 \/ rows[i].user_id # a THEN rows
        ELSE [rows EXCEPT ![i].interaction_count = OrZero(@) + 1,
                          ![i].intimacy_score =
                              Min(IntimacyCap, OrZero(@) + IntimacyStep)]

\* mutant of BumpFriendship: the counter is written from a count of the
\* rows the sender has sent the peer
BumpFriendship_countsOwnRows(rows, a, b) ==
    LET i == FindFriendship(rows, a, b)
        own == {k \in 1..Len(messages) :
                   messages[k].sender_id = a /\ messages[k].receiver_id = b}
    IN  IF i = 0 THEN rows
        ELSE [rows EXCEPT ![i].interaction_count = Cardinality(own) + 1,
                          ![i].intimacy_score =
                              Min(IntimacyCap, OrZero(@) + IntimacyStep)]

\* chat.py lines 108-116
BumpFriendship(rows, a, b) ==
    LET i == FindFriendship(rows, a, b)
    IN  IF i = 0 THEN rows
        ELSE [rows EXCEPT ![i].interaction_count = OrZero(@) + 1,
                          ![i].intimacy_score =
                              Min(IntimacyCap, OrZero(@) + IntimacyStep)]

\* ---------------------------------------------------------------- analyzer
\* what the analyzer finds when it is called: no credential (or no dashscope
\* library), an answer with the scores, a status other than 200, or an
\* answer that is no JSON
AnalyzerEnvs == {"nokey", "ok", "apierror", "malformed"}

SentimentFields == {"sentiment_score", "positive_score", "negative_score", "neutral_score"}

\* the neutral result the analyzer falls back to
NeutralResult == [raises |-> None, sentiment_score |-> "0.0", positive_score |-> "0.33",
                  negative_score |-> "0.33", neutral_score |-> "0.34"]

\* analysis_service.analyze_sentiment_llm: the SentimentResult, or the
\* ValueError of a missing credential; the scores of an answer are those
\* the service returned
analyze_sentiment_llm(text, env) ==
    CASE env = "nokey" -> [raises |-> "ValueError", sentiment_score |-> None,
                           positive_score |-> None, negative_score |-> None,
                           neutral_score |-> None]
      [] env = "ok"    -> [raises |-> None, sentiment_score |-> "0.8",
                           positive_score |-> "0.85", negative_score |-> "0.05",
                           neutral_score |-> "0.10"]
      [] OTHER         -> NeutralResult

\* ------------------------------------------------------------------ state
NoFrame == [target |-> 0, idx |-> 0, cur |-> 0, disconnected |-> <<>>, alive |-> FALSE,
            raises |-> None]
NoPayload == [id |-> 0, sender_id |-> 0, receiver_id |-> 0, content |-> "", is_read |-> FALSE,
              created_at |-> <<>>, sentiment_score |-> None]
Ended == {"refused", "closed", "failed"}

\* a step that skipped a text or ended a session: the operation, its
\* session, the text it received, the exception it raised and whether the
\* session's websocket was registered before it; NoStep for any other step
Step(op, s, text, exc, reg) == [op |-> op, s |-> s, text |-> text, exc |-> exc, reg |-> reg]
NoStep == Step("none", 0, None, None, FALSE)

\* no HTTP response has been returned
NoResponse == [op |-> "none"]

Init ==
    /\ pc = [s \in Sessions |-> "new"]
    /\ user_id = [s \in Sessions |-> 0]
    /\ friend_id = [s \in Sessions |-> 0]
    /\ closeCode = [s \in Sessions |-> 0]
    /\ accepted = [s \in Sessions |-> FALSE]
    /\ active_connections = EmptyDict
    /\ messages = <<>>
    /\ friendships = <<>>
    /\ delivered = [s \in Sessions |-> <<>>]
    /\ iter = [s \in Sessions |-> NoFrame]
    /\ response_data = [s \in Sessions |-> NoPayload]
    /\ last = NoStep
    /\ sendStart = [s \in Sessions |-> {}]
    /\ origin = <<>>
    /\ requests = {}
    /\ response = NoResponse

\* A frame iterates the list object it was started on; when the registry
\* drops the key, that object is left behind (empty) and a later connect
\* creates a fresh list the frame does not see.
Orphan(frames, conns) ==
    [s \in Sessions |->
        IF frames[s].alive /\ frames[s].target \notin DOMAIN conns
        THEN [frames[s] EXCEPT !.alive = FALSE] ELSE frames[s]]

\* the list a frame iterates
IterList(frame, conns) ==
    IF frame.alive /\ frame.target \in DOMAIN conns THEN conns[frame.target] ELSE <<>>

\* tokens a client may present
Tokens == {[kind |-> "valid", sub |-> x] : x \in Subjects}
            \cup {[kind |-> k, sub |-> None] : k \in TokenKinds \ {"valid"}}

\* ---------------------------------------------------------------- actions
\* websocket_endpoint, lines 37-67 up to the await of websocket.accept():
\* a refused attempt is closed with the policy-violation status and returns.
\* Websocket objects are numbered in the order in which they arrive.
Authenticate(s, tok, fid) ==
    /\ pc[s] = "new"
    /\ \A r \in Sessions : r < s => pc[r] # "new"
    /\ LET auth == AuthenticatedUser(tok, fid)
       IN  IF auth.ok
           THEN /\ pc' = [pc EXCEPT ![s] = "accepting"]
                /\ user_id' = [user_id EXCEPT ![s] = auth.user_id]
                /\ friend_id' = [friend_id EXCEPT ![s] = fid]
                /\ UNCHANGED closeCode
           ELSE /\ pc' = [pc EXCEPT ![s] = "refused"]
                /\ closeCode' = [closeCode EXCEPT ![s] = WS_1008_POLICY_VIOLATION]
                /\ UNCHANGED <<user_id, friend_id>>
    /\ last' = NoStep
    /\ UNCHANGED <<requests, response, accepted, active_connections, messages, origin, friendships,
                   delivered, iter, response_data, sendStart>>

\* the end of the coroutine: its locals are gone
Return(s, state) ==
    /\ pc' = [pc EXCEPT ![s] = state]
    /\ user_id' = [user_id EXCEPT ![s] = 0]
    /\ friend_id' = [friend_id EXCEPT ![s] = 0]
    /\ response_data' = [response_data EXCEPT ![s] = NoPayload]
    /\ sendStart' = [sendStart EXCEPT ![s] = {}]

\* ConnectionManager.connect after the await: the handshake succeeded and
\* the websocket is registered, or accept() raised and the call is left
Accept(s, ok) ==
    /\ pc[s] = "accepting"
    /\ IF ok
       THEN /\ accepted' = [accepted EXCEPT ![s] = TRUE]
            /\ pc' = [pc EXCEPT ![s] = "recv"]
            /\ last' = NoStep
            /\ UNCHANGED <<user_id, friend_id, response_data, sendStart>>
       ELSE /\ Return(s, "failed")
            /\ last' = NoStep
            /\ UNCHANGED accepted
    /\ active_connections' = connect(active_connections, s, user_id[s], ok)
    /\ UNCHANGED <<requests, response, closeCode, messages, origin, friendships, delivered, iter>>

\* mutant of Raise: the except clause for other exceptions only re-raises
Raise_keepsRegistered(s, exc) ==
    /\ active_connections' = IF exc = "WebSocketDisconnect"
                             THEN disconnect(active_connections, s, user_id[s])
                             ELSE active_connections
    /\ iter' = Orphan([iter EXCEPT ![s] = NoFrame], active_connections')
    /\ Return(s, IF exc = "WebSocketDisconnect" THEN "closed" ELSE "failed")

\* the except clauses of lines 138-142: unregister and end the session
Raise(s, exc) ==
    /\ active_connections' = disconnect(active_connections, s, user_id[s])
    /\ iter' = Orphan([iter EXCEPT ![s] = NoFrame], active_connections')
    /\ Return(s, IF exc = "WebSocketDisconnect" THEN "closed" ELSE "failed")

\* receive_text raises WebSocketDisconnect: the client went away
ClientDisconnect(s) ==
    /\ pc[s] = "recv"
    /\ Raise(s, "WebSocketDisconnect")
    /\ last' = Step("ClientDisconnect", s, None, "WebSocketDisconnect",
                    s \in Registered(active_connections))
    /\ UNCHANGED <<requests, response, closeCode, accepted, messages, origin, friendships, delivered>>

\* the float 0.0 of the placeholder sentiment scores
Placeholder == "0.0"

\* mutant of NewMessage: sender and receiver are swapped
NewMessage_swapped(s, content) ==
    [id |-> Len(messages) + 1, sender_id |-> friend_id[s],
     receiver_id |-> user_id[s], content |-> content, is_read |-> FALSE,
     sentiment_score |-> Placeholder, positive_score |-> Placeholder,
     negative_score |-> Placeholder, neutral_score |-> Placeholder,
     created_at |-> Len(messages) + 1]

\* the row written by lines 86-98: the id is the next of the table and
\* created_at the time of the insert (the clock ticks once per row)
NewMessage(s, content) ==
    [id |-> Len(messages) + 1, sender_id |-> user_id[s],
     receiver_id |-> friend_id[s], content |-> content, is_read |-> FALSE,
     sentiment_score |-> Placeholder, positive_score |-> Placeholder,
     negative_score |-> Placeholder, neutral_score |-> Placeholder,
     created_at |-> Len(messages) + 1]

\* datetime.isoformat(): the text of a time
isoformat(t) == <<"T", t>>

\* the dict of lines 119-127
ResponseData(message) ==
    [id |-> message.id, sender_id |-> message.sender_id,
     receiver_id |-> message.receiver_id, content |-> message.content,
     is_read |-> message.is_read, created_at |-> isoformat(message.created_at),
     sentiment_score |-> message.sentiment_score]

\* mutant of StartFrame: the list is looked up without the guard of line 54
StartFrame_KeyError(conns, uid) ==
    IF uid \in DOMAIN conns /\ Len(conns[uid]) > 0
    THEN [target |-> uid, idx |-> 1, cur |-> conns[uid][1],
          disconnected |-> <<>>, alive |-> TRUE, raises |-> None]
    ELSE [NoFrame EXCEPT !.raises = "KeyError"]

\* mutant of StartFrame: the loop starts on the first list of the registry,
\* not on the list of the recipient
StartFrame_firstList(conns, uid) ==
    IF uid \in DOMAIN conns /\ Len(conns[uid]) > 0
    THEN [target |-> uid, idx |-> 1,
          cur |-> conns[CHOOSE u \in DOMAIN conns : \A v \in DOMAIN conns : u <= v][1],
          disconnected |-> <<>>, alive |-> TRUE, raises |-> None]
    ELSE NoFrame

\* send_personal_message from its entry to its first await (lines 54-59):
\* the frame on the first connection, NoFrame when the loop has no turn;
\* raises names an exception that leaves the call
StartFrame(conns, uid) ==
    IF uid \in DOMAIN conns /\ Len(conns[uid]) > 0
    THEN [target |-> uid, idx |-> 1, cur |-> conns[uid][1],
          disconnected |-> <<>>, alive |-> TRUE, raises |-> None]
    ELSE NoFrame

\* one turn of the receive loop, lines 72-133, up to the first await inside
\* send_personal_message (or, when nothing is to be sent, to the echo)
Receive(s, text, dbOk) ==
    /\ pc[s] = "recv"
    /\ LET parsed == ParseContent(text)
           reg == s \in Registered(active_connections)
       IN  IF parsed.raises # None
           THEN /\ Raise(s, parsed.raises)
                /\ last' = Step("Receive", s, text, parsed.raises, reg)
                /\ UNCHANGED <<messages, origin, friendships>>
           ELSE IF Falsy(parsed.content)
           THEN /\ last' = Step("Receive", s, text, None, reg)
                /\ UNCHANGED <<pc, user_id, friend_id, active_connections,
                               messages, origin, friendships, iter, response_data,
                               sendStart>>
           ELSE IF ~dbOk
           THEN /\ Raise(s, "DBError")
                /\ last' = Step("Receive", s, text, "DBError", reg)
                /\ UNCHANGED <<messages, origin, friendships>>
           ELSE /\ messages' = Append(messages, NewMessage(s, parsed.content))
                /\ origin' = Append(origin, s)
                /\ friendships' = BumpFriendship(friendships, user_id[s], friend_id[s])
                /\ LET frame == StartFrame(active_connections, friend_id[s])
                   IN  IF frame.raises # None
                       THEN /\ Raise(s, frame.raises)
                            /\ last' = Step("Receive", s, text, frame.raises, reg)
                       ELSE /\ last' = NoStep
                            /\ response_data' = [response_data EXCEPT
                                    ![s] = ResponseData(NewMessage(s, parsed.content))]
                            /\ iter' = [iter EXCEPT ![s] = frame]
                            /\ sendStart' = [sendStart EXCEPT ![s] =
                                    Channels(active_connections, friend_id[s])]
                            /\ pc' = [pc EXCEPT ![s] = IF frame = NoFrame
                                                       THEN "echo" ELSE "sending"]
                            /\ UNCHANGED <<active_connections, user_id, friend_id>>
    /\ UNCHANGED <<requests, response, closeCode, accepted, delivered>>

\* a websocket can take a text only while its client is still there
Open(c) == pc[c] \in {"recv", "sending", "echo"}

\* the awaited send_text of line 59 returns or raises; the loop then takes
\* its next connection, or ends and runs the clean-up of lines 65-66
SendStep(s, ok) ==
    /\ pc[s] = "sending"
    /\ ok => Open(iter[s].cur)
    /\ LET frame == iter[s]
           broken == IF ok THEN frame.disconnected
                     ELSE Append(frame.disconnected, frame.cur)
           lst == IterList(frame, active_connections)
       IN  /\ delivered' = IF ok
                           THEN [delivered EXCEPT
                                    ![frame.cur] = Append(@, response_data[s])]
                           ELSE delivered
           /\ IF frame.idx < Len(lst)
              THEN /\ iter' = [iter EXCEPT ![s] =
                                 [frame EXCEPT !.idx = @ + 1,
                                               !.cur = lst[frame.idx + 1],
                                               !.disconnected = broken]]
                   /\ UNCHANGED <<pc, active_connections>>
              ELSE /\ active_connections' =
                          disconnectAll(active_connections, broken, frame.target)
                   /\ iter' = Orphan([iter EXCEPT ![s] = NoFrame],
                                     active_connections')
                   /\ pc' = [pc EXCEPT ![s] = "echo"]
    /\ last' = NoStep
    /\ UNCHANGED <<requests, response, user_id, friend_id, closeCode, accepted, messages, origin, friendships,
                   response_data, sendStart>>

\* mutant of Echo: the echo is built from the first row the sender's user
\* has stored
Echo_firstRow(s, ok) ==
    /\ pc[s] = "echo"
    /\ IF ok
       THEN /\ delivered' = [delivered EXCEPT ![s] = Append(@,
                  ResponseData(messages[CHOOSE k \in 1..Len(messages) :
                      /\ messages[k].sender_id = user_id[s]
                      /\ \A j \in 1..(k - 1) : messages[j].sender_id # user_id[s]]))]
            /\ pc' = [pc EXCEPT ![s] = "recv"]
            /\ response_data' = [response_data EXCEPT ![s] = NoPayload]
            /\ sendStart' = [sendStart EXCEPT ![s] = {}]
            /\ last' = NoStep
            /\ UNCHANGED <<active_connections, iter, user_id, friend_id>>
       ELSE /\ Raise(s, "SendError")
            /\ last' = Step("Echo", s, None, "SendError",
                            s \in Registered(active_connections))
            /\ UNCHANGED delivered
    /\ UNCHANGED <<requests, response, closeCode, accepted, messages, origin, friendships>>

\* mutant of Echo: the echo is built anew from the newest row of the table
Echo_newestRow(s, ok) ==
    /\ pc[s] = "echo"
    /\ IF ok
       THEN /\ delivered' = [delivered EXCEPT
                                ![s] = Append(@, ResponseData(messages[Len(messages)]))]
            /\ pc' = [pc EXCEPT ![s] = "recv"]
            /\ response_data' = [response_data EXCEPT ![s] = NoPayload]
            /\ sendStart' = [sendStart EXCEPT ![s] = {}]
            /\ last' = NoStep
            /\ UNCHANGED <<active_connections, iter, user_id, friend_id>>
       ELSE /\ Raise(s, "SendError")
            /\ last' = Step("Echo", s, None, "SendError",
                            s \in Registered(active_connections))
            /\ UNCHANGED delivered
    /\ UNCHANGED <<requests, response, closeCode, accepted, messages, origin, friendships>>

\* mutant of Echo: the echo does not wait for send_personal_message to
\* return
Echo_duringDelivery(s, ok) ==
    /\ pc[s] \in {"sending", "echo"}
    /\ IF ok
       THEN /\ delivered' = [delivered EXCEPT ![s] = Append(@, response_data[s])]
            /\ pc' = [pc EXCEPT ![s] = "recv"]
            /\ response_data' = [response_data EXCEPT ![s] = NoPayload]
            /\ sendStart' = [sendStart EXCEPT ![s] = {}]
            /\ last' = NoStep
            /\ UNCHANGED <<active_connections, iter, user_id, friend_id>>
       ELSE /\ Raise(s, "SendError")
            /\ last' = Step("Echo", s, None, "SendError",
                            s \in Registered(active_connections))
            /\ UNCHANGED delivered
    /\ UNCHANGED <<requests, response, closeCode, accepted, messages, origin, friendships>>

\* the awaited echo of line 136 returns, and the loop goes back to
\* receive_text, or raises
Echo(s, ok) ==
    /\ pc[s] = "echo"
    /\ IF ok
       THEN /\ delivered' = [delivered EXCEPT ![s] = Append(@, response_data[s])]
            /\ pc' = [pc EXCEPT ![s] = "recv"]
            /\ response_data' = [response_data EXCEPT ![s] = NoPayload]
            /\ sendStart' = [sendStart EXCEPT ![s] = {}]
            /\ last' = NoStep
            /\ UNCHANGED <<active_connections, iter, user_id, friend_id>>
       ELSE /\ Raise(s, "SendError")
            /\ last' = Step("Echo", s, None, "SendError",
                            s \in Registered(active_connections))
            /\ UNCHANGED delivered
    /\ UNCHANGED <<requests, response, closeCode, accepted, messages, origin, friendships>>

\* friends.py add_friend, lines 88-127; a rejected request changes nothing
AddFriend(cur, fid) ==
    /\ fid # cur
    /\ fid \in Users
    /\ FindFriendship(friendships, cur, fid) = 0
    /\ friendships' = Append(friendships,
                             [user_id |-> cur, friend_id |-> fid,
                              status |-> "pending", intimacy_score |-> 0,
                              interaction_count |-> 0,
                              created_at |-> Len(messages)])
    /\ last' = NoStep
    /\ UNCHANGED <<requests, response, pc, user_id, friend_id, closeCode, accepted, active_connections,
                   messages, origin, delivered, iter, response_data, sendStart>>

valid_statuses == {"pending", "accepted", "blocked"}

\* friends.py update_friendship, lines 141-163; a rejected request changes
\* nothing
UpdateFriendship(cur, fid, status) ==
    /\ FindFriendship(friendships, cur, fid) # 0
    /\ status \in valid_statuses
    /\ friendships' = [friendships EXCEPT
                          ![FindFriendship(friendships, cur, fid)].status = status]
    /\ last' = NoStep
    /\ UNCHANGED <<requests, response, pc, user_id, friend_id, closeCode, accepted, active_connections,
                   messages, origin, delivered, iter, response_data, sendStart>>

\* The sessions of the first `n` websockets, receiving texts of `texts`
\* while fewer than `maxMsgs` rows are stored.
SessionNext(n, texts, maxMsgs) ==
    \/ \E s \in 1..n, tok \in Tokens, fid \in UserIds : Authenticate(s, tok, fid)
    \/ \E s \in 1..n, ok \in BOOLEAN : Accept(s, ok)
    \/ \E s \in 1..n : ClientDisconnect(s)
    \/ \E s \in 1..n, text \in texts, dbOk \in BOOLEAN :
          Len(messages) < maxMsgs /\ Receive(s, text, dbOk)
    \/ \E s \in 1..n, ok \in BOOLEAN : SendStep(s, ok)
    \/ \E s \in 1..n, ok \in BOOLEAN : Echo(s, ok)

FriendNext ==
    \E cur \in Users, fid \in UserIds : AddFriend(cur, fid)

\* the message pipeline: few sessions, every kind of text, friendships
Next == SessionNext(PipelineSessions, RawTexts, MaxMessages) \/ FriendNext

Spec == Init /\ [][Next]_vars

\* the connection registry: more websockets, one kind of text
RegistryNext == SessionNext(NumSessions, {ObjHi}, RegistryMessages)

SpecRegistry == Init /\ [][RegistryNext]_vars

\* The relationship aggregate: the table may hold a row of the pair that
\* earlier chats have counted up, or a row whose counters are NULL.
InitialCounts == {0, 999, 1000}

InitialFriendships ==
    {<<>>}
    \cup {<<[user_id |-> a, friend_id |-> b, status |-> "pending",
             intimacy_score |-> Min(IntimacyCap, k * IntimacyStep),
             interaction_count |-> k, created_at |-> 0]>> :
              a \in Users, b \in Users, k \in InitialCounts}
    \cup {<<[user_id |-> a, friend_id |-> b, status |-> "pending",
             intimacy_score |-> Unset, interaction_count |-> Unset,
             created_at |-> 0]>> : a \in Users, b \in Users}

InitRelationship ==
    /\ pc = [s \in Sessions |-> "new"]
    /\ user_id = [s \in Sessions |-> 0]
    /\ friend_id = [s \in Sessions |-> 0]
    /\ closeCode = [s \in Sessions |-> 0]
    /\ accepted = [s \in Sessions |-> FALSE]
    /\ active_connections = EmptyDict
    /\ messages = <<>>
    /\ friendships \in {f \in InitialFriendships :
                            f = <<>> \/ f[1].user_id # f[1].friend_id}
    /\ delivered = [s \in Sessions |-> <<>>]
    /\ iter = [s \in Sessions |-> NoFrame]
    /\ response_data = [s \in Sessions |-> NoPayload]
    /\ last = NoStep
    /\ sendStart = [s \in Sessions |-> {}]
    /\ origin = <<>>
    /\ requests = {}
    /\ response = NoResponse

UpdateNext ==
    \E cur \in Users, fid \in UserIds, status \in valid_statuses :
        UpdateFriendship(cur, fid, status)

RelationshipNext ==
    \/ SessionNext(RelationshipSessions, {ObjHi}, MaxMessages)
    \/ FriendNext
    \/ UpdateNext

SpecRelationship == InitRelationship /\ [][RelationshipNext]_vars

\* ------------------------------------------------------- friends endpoints
\* add_friend runs in a worker thread of the server: other requests may run
\* between its lookup (lines 88-112) and its insert (lines 115-127).
\* The lookup: a rejected request is answered at once, an admitted one goes
\* on to its insert.
AddFriendLookup(cur, fid) ==
    /\ [user_id |-> cur, friend_id |-> fid] \notin requests
    /\ IF fid = cur
       THEN /\ response' = [op |-> "add_friend", status_code |-> 400]
            /\ UNCHANGED requests
       ELSE IF fid \notin Users
       THEN /\ response' = [op |-> "add_friend", status_code |-> 404]
            /\ UNCHANGED requests
       ELSE IF FindFriendship(friendships, cur, fid) # 0
       THEN /\ response' = [op |-> "add_friend", status_code |-> 400]
            /\ UNCHANGED requests
       ELSE /\ requests' = requests \cup {[user_id |-> cur, friend_id |-> fid]}
            /\ UNCHANGED response
    /\ UNCHANGED <<chatVars, messages, friendships>>

\* the insert of an admitted add_friend request
AddFriendInsert(req) ==
    /\ req \in requests
    /\ requests' = requests \ {req}
    /\ friendships' = Append(friendships,
                             [user_id |-> req.user_id, friend_id |-> req.friend_id,
                              status |-> "pending", intimacy_score |-> 0,
                              interaction_count |-> 0,
                              created_at |-> Len(messages)])
    /\ response' = [op |-> "add_friend", status_code |-> 201]
    /\ UNCHANGED <<chatVars, messages>>

\* mutant of RemoveFriend: the rows the pair exchanged go with the friendship
RemoveFriend_cascade(cur, fid) ==
    /\ IF FindFriendship(friendships, cur, fid) = 0
       THEN /\ response' = [op |-> "remove_friend", status_code |-> 404]
            /\ UNCHANGED <<friendships, messages>>
       ELSE /\ response' = [op |-> "remove_friend", status_code |-> 204]
            /\ friendships' =
                   [i \in 1..(Len(friendships) - 1) |->
                       IF i < FindFriendship(friendships, cur, fid)
                       THEN friendships[i] ELSE friendships[i + 1]]
            /\ messages' = SelectSeq(messages, LAMBDA m :
                               {m.sender_id, m.receiver_id} # {cur, fid})
    /\ UNCHANGED <<chatVars, requests>>

\* friends.py remove_friend, lines 179-193
RemoveFriend(cur, fid) ==
    /\ IF FindFriendship(friendships, cur, fid) = 0
       THEN /\ response' = [op |-> "remove_friend", status_code |-> 404]
            /\ UNCHANGED friendships
       ELSE /\ response' = [op |-> "remove_friend", status_code |-> 204]
            /\ friendships' =
                   [i \in 1..(Len(friendships) - 1) |->
                       IF i < FindFriendship(friendships, cur, fid)
                       THEN friendships[i] ELSE friendships[i + 1]]
    /\ UNCHANGED <<chatVars, messages, requests>>

FriendsNext ==
    \/ \E cur \in Users, fid \in UserIds : AddFriendLookup(cur, fid)
    \/ \E req \in requests : AddFriendInsert(req)
    \/ \E cur \in Users, fid \in UserIds : RemoveFriend(cur, fid)
    \/ UpdateNext
    \/ SessionNext(RelationshipSessions, {ObjHi}, MaxMessages)

\* the friends endpoints, their requests served concurrently, next to a
\* chat session
SpecFriends == Init /\ [][FriendsNext]_vars

\* ---------------------------------------------------------- chat endpoints
\* mutant of Conversation: only the rows a sent b
Conversation_oneWay(rows, a, b) ==
    SelectSeq(rows, LAMBDA m : m.sender_id = a /\ m.receiver_id = b)

\* the rows of the conversation of a and b, both directions (lines 178-184)
Conversation(rows, a, b) ==
    SelectSeq(rows, LAMBDA m : \/ m.sender_id = a /\ m.receiver_id = b
                               \/ m.sender_id = b /\ m.receiver_id = a)

\* the unread rows b sent a (lines 218-222 and 260-264)
UnreadFrom(rows, a, b) ==
    {k \in 1..Len(rows) :
        rows[k].sender_id = b /\ rows[k].receiver_id = a /\ ~rows[k].is_read}

RemoveAt(seq, k) == [i \in 1..(Len(seq) - 1) |-> IF i < k THEN seq[i] ELSE seq[i + 1]]

RECURSIVE OrderByCreatedDesc(_)
\* order_by(Message.created_at.desc())
OrderByCreatedDesc(rows) ==
    IF rows = <<>> THEN <<>>
    ELSE LET k == CHOOSE i \in 1..Len(rows) :
                      \A j \in 1..Len(rows) :
                          \/ rows[j].created_at < rows[i].created_at
                          \/ rows[j].created_at = rows[i].created_at /\ i <= j
         IN  <<rows[k]>> \o OrderByCreatedDesc(RemoveAt(rows, k))

\* .offset(skip).limit(limit)
OffsetLimit(rows, skip, limit) == SubSeq(rows, skip + 1, Min(Len(rows), skip + limit))

\* list.reverse()
Reverse(seq) == [i \in 1..Len(seq) |-> seq[Len(seq) + 1 - i]]

\* mutant of get_chat_history: the page is returned as the query gave it
get_chat_history_notReversed(rows, cur, fid, skip, limit) ==
    OffsetLimit(OrderByCreatedDesc(Conversation(rows, cur, fid)), skip, limit)

\* get_chat_history, lines 177-189: the list returned
get_chat_history(rows, cur, fid, skip, limit) ==
    Reverse(OffsetLimit(OrderByCreatedDesc(Conversation(rows, cur, fid)), skip, limit))

\* the endpoint GET /chat/{friend_id}
GetChatHistory(cur, fid, skip, limit) ==
    /\ response' = IF fid \notin Users
                   THEN [op |-> "get_chat_history", status_code |-> 404]
                   ELSE [op |-> "get_chat_history", status_code |-> 200,
                         cur |-> cur, fid |-> fid, skip |-> skip, limit |-> limit,
                         body |-> get_chat_history(messages, cur, fid, skip, limit)]
    /\ UNCHANGED <<chatVars, messages, friendships, requests>>

\* mutant of MarkedRows: every unread row of the friend is marked, whoever
\* it was sent to
MarkedRows_anyReceiver(rows, cur, fid) ==
    [k \in 1..Len(rows) |->
        IF rows[k].sender_id = fid /\ ~rows[k].is_read
        THEN [rows[k] EXCEPT !.is_read = TRUE] ELSE rows[k]]

\* mutant of MarkedRows: the unread rows of the pair are marked in both
\* directions
MarkedRows_bothWays(rows, cur, fid) ==
    [k \in 1..Len(rows) |->
        IF {rows[k].sender_id, rows[k].receiver_id} = {cur, fid} /\ ~rows[k].is_read
        THEN [rows[k] EXCEPT !.is_read = TRUE] ELSE rows[k]]

\* the table after the update of lines 218-224
MarkedRows(rows, cur, fid) ==
    [k \in 1..Len(rows) |->
        IF k \in UnreadFrom(rows, cur, fid)
        THEN [rows[k] EXCEPT !.is_read = TRUE] ELSE rows[k]]

\* the endpoint PUT /chat/{friend_id}/read, lines 210-229
MarkMessagesAsRead(cur, fid) ==
    /\ IF fid \notin Users
       THEN /\ response' = [op |-> "mark_messages_as_read", status_code |-> 404]
            /\ UNCHANGED messages
       ELSE /\ messages' = MarkedRows(messages, cur, fid)
            /\ response' = [op |-> "mark_messages_as_read", status_code |-> 200,
                            cur |-> cur, fid |-> fid,
                            marked_as_read |->
                                Cardinality(UnreadFrom(messages, cur, fid))]
    /\ UNCHANGED <<chatVars, friendships, requests>>

\* the endpoint GET /chat/{friend_id}/unread, lines 252-267
GetUnreadCount(cur, fid) ==
    /\ response' = IF fid \notin Users
                   THEN [op |-> "get_unread_count", status_code |-> 404]
                   ELSE [op |-> "get_unread_count", status_code |-> 200,
                         cur |-> cur, fid |-> fid,
                         unread_count |-> Cardinality(UnreadFrom(messages, cur, fid))]
    /\ UNCHANGED <<chatVars, messages, friendships, requests>>

\* a row an earlier session stored: the k-th of the table
StoredMessage(k, sender, receiver) ==
    [id |-> k, sender_id |-> sender, receiver_id |-> receiver, content |-> "hi",
     is_read |-> FALSE,
     sentiment_score |-> Placeholder, positive_score |-> Placeholder,
     negative_score |-> Placeholder, neutral_score |-> Placeholder,
     created_at |-> k]

\* the tables earlier sessions may have left
InitialMessages ==
    UNION {{[k \in 1..n |-> StoredMessage(k, f[k][1], f[k][2])] :
               f \in [1..n -> Users \X Users]} : n \in 0..MaxStored}

InitInbox ==
    /\ pc = [s \in Sessions |-> "new"]
    /\ user_id = [s \in Sessions |-> 0]
    /\ friend_id = [s \in Sessions |-> 0]
    /\ closeCode = [s \in Sessions |-> 0]
    /\ accepted = [s \in Sessions |-> FALSE]
    /\ active_connections = EmptyDict
    /\ messages \in InitialMessages
    /\ friendships = <<>>
    /\ delivered = [s \in Sessions |-> <<>>]
    /\ iter = [s \in Sessions |-> NoFrame]
    /\ response_data = [s \in Sessions |-> NoPayload]
    /\ last = NoStep
    /\ sendStart = [s \in Sessions |-> {}]
    /\ origin = [k \in 1..Len(messages) |-> 0]
    /\ requests = {}
    /\ response = NoResponse

InboxNext ==
    \/ \E cur \in Users, fid \in UserIds : MarkMessagesAsRead(cur, fid)
    \/ \E cur \in Users, fid \in UserIds : GetUnreadCount(cur, fid)
    \/ \E cur \in Users, fid \in UserIds, skip \in 0..MaxPage, limit \in 0..MaxPage :
          GetChatHistory(cur, fid, skip, limit)

\* the HTTP endpoints of chat.py on a stored messages table
SpecInbox == InitInbox /\ [][InboxNext]_vars

\* ---------------------------------------------------------------- rankings
\* the users table of SpecRanking
RankUsers == 1..NumRankUsers

\* a timestamp is a clock tick; a calendar day holds TicksPerDay of them
\* (tick 0 of a day is its morning, tick 1 its evening)
TicksPerDay == 2

\* datetime.date()
date(t) == t \div TicksPerDay

\* timedelta(days=n)
timedelta(n) == n * TicksPerDay

\* date.isoformat()
DateIso(d) == <<"D", d>>

\* a float column is held in thousandths
Thousandths(x) ==
    CASE x = "0.0"  -> 0
      [] x = "0.8"  -> 800
      [] x = "-0.5" -> -500

\* a stored intimacy_score (tenths) in thousandths
StoredScore(tenths) == tenths * 100

ScoreCap == IntimacyCap * 100

\* 1000 * ln(n) for n = 1..25
LogTable ==
    <<0, 693, 1099, 1386, 1609, 1792, 1946, 2079, 2197, 2303, 2398, 2485, 2565,
      2639, 2708, 2773, 2833, 2890, 2944, 2996, 3045, 3091, 3135, 3178, 3219>>

\* math.log in thousandths; an argument beyond the table stands for a huge
\* count and gets ln(1000001)
log(n) == IF n <= Len(LogTable) THEN LogTable[n] ELSE 13816

SCORE_LOG_SCALE == 10
SCORE_SENTIMENT_SCALE == 20
SCORE_DECIMAL_PLACES == 2

RECURSIVE SumSeq(_)
\* sum(values)
SumSeq(values) ==
    IF values = <<>> THEN 0 ELSE Head(values) + SumSeq(Tail(values))

RECURSIVE Pow10(_)
Pow10(n) == IF n = 0 THEN 1 ELSE 10 * Pow10(n - 1)

\* round(x, ndigits) of a value in thousandths
round(x, ndigits) ==
    LET u == Pow10(3 - ndigits)
    IN  ((2 * x + u) \div (2 * u)) * u

\* rankings.py lines 24-29
calculate_score(count, sentiment) ==
    IF count > 0
    THEN Min(ScoreCap, log(count + 1) * SCORE_LOG_SCALE
                           + (sentiment + 1000) * SCORE_SENTIMENT_SCALE)
    ELSE 0

\* rankings.py lines 32-34
average_sentiment(sentiments) ==
    IF sentiments = <<>> THEN 0 ELSE SumSeq(sentiments) \div Len(sentiments)

\* the sentiment_score values of the rows that have one
SentimentsOf(rows) ==
    LET scored == SelectSeq(rows, LAMBDA m : m.sentiment_score # None)
    IN  [i \in 1..Len(scored) |-> Thousandths(scored[i].sentiment_score)]

\* mutant of AcceptedEntries: the status of a row is not looked at
AcceptedEntries_anyStatus(rows, cur) ==
    LET as_user == SelectSeq(rows, LAMBDA f :
                       f.user_id = cur /\ f.friend_id \in RankUsers)
        as_friend == SelectSeq(rows, LAMBDA f :
                       f.friend_id = cur /\ f.user_id \in RankUsers)
    IN  [i \in 1..Len(as_user) |->
            [friendship |-> as_user[i], friend |-> as_user[i].friend_id]]
        \o [i \in 1..Len(as_friend) |->
            [friendship |-> as_friend[i], friend |-> as_friend[i].user_id]]

\* friendships_as_user followed by friendships_as_friend (lines 70-88): the
\* accepted rows of cur joined with the user at the other end
AcceptedEntries(rows, cur) ==
    LET as_user == SelectSeq(rows, LAMBDA f :
                       /\ f.user_id = cur /\ f.status = "accepted"
                       /\ f.friend_id \in RankUsers)
        as_friend == SelectSeq(rows, LAMBDA f :
                       /\ f.friend_id = cur /\ f.status = "accepted"
                       /\ f.user_id \in RankUsers)
    IN  [i \in 1..Len(as_user) |->
            [friendship |-> as_user[i], friend |-> as_user[i].friend_id]]
        \o [i \in 1..Len(as_friend) |->
            [friendship |-> as_friend[i], friend |-> as_friend[i].user_id]]

RECURSIVE friend_data(_)
\* the dict of lines 91-99 in insertion order: an entry is dropped when its
\* friend is already a key
friend_data(entries) ==
    IF entries = <<>> THEN <<>>
    ELSE LET before == friend_data(SubSeq(entries, 1, Len(entries) - 1))
             entry == entries[Len(entries)]
         IN  IF \E i \in 1..Len(before) : before[i].friend = entry.friend
             THEN before
             ELSE Append(before, entry)

\* the rows of the window exchanged with fid (lines 107-119 and 123)
recent_messages(rows, cur, fid, start_date) ==
    SelectSeq(Conversation(rows, cur, fid),
              LAMBDA m : m.created_at >= start_date)

\* mutant of Trend: a day without messages gets no point
Trend_activeDaysOnly(recent, start_date, days) ==
    LET point(i) ==
            LET day_date == date(start_date + timedelta(i - 1))
                on_day == SelectSeq(recent,
                              LAMBDA m : date(m.created_at) = day_date)
            IN  [date |-> DateIso(day_date),
                 count |-> Len(on_day),
                 score |-> round(calculate_score(Len(on_day),
                                     average_sentiment(SentimentsOf(on_day))),
                                 SCORE_DECIMAL_PLACES)]
    IN  SelectSeq([i \in 1..days |-> point(i)], LAMBDA p : p.count > 0)

\* the loop of lines 134-144: one point per i in range(days)
Trend(recent, start_date, days) ==
    LET point(i) ==
            LET day_date == date(start_date + timedelta(i - 1))
                on_day == SelectSeq(recent,
                              LAMBDA m : date(m.created_at) = day_date)
            IN  [date |-> DateIso(day_date),
                 count |-> Len(on_day),
                 score |-> round(calculate_score(Len(on_day),
                                     average_sentiment(SentimentsOf(on_day))),
                                 SCORE_DECIMAL_PLACES)]
    IN  [i \in 1..days |-> point(i)]

\* created_at of the newest row of the pair, NULL when there is none
\* (lines 147-155)
last_interaction(rows, cur, fid) ==
    LET conv == OrderByCreatedDesc(Conversation(rows, cur, fid))
    IN  IF conv = <<>> THEN Unset ELSE conv[1].created_at

\* mutant of ResolveIntimacy: the stored score is reported whatever it is
ResolveIntimacy_alwaysStored(friendship, rows, cur, fid) ==
    StoredScore(OrZero(friendship.intimacy_score))

\* lines 157-181: the stored score, or the score computed from every row
\* of the pair
ResolveIntimacy(friendship, rows, cur, fid) ==
    IF friendship.intimacy_score = Unset \/ friendship.intimacy_score = 0
    THEN LET conv == Conversation(rows, cur, fid)
             message_count == Len(conv)
             avg_sentiment == average_sentiment(SentimentsOf(conv))
         IN  Min(ScoreCap, log(message_count + 1) * 10
                               + (avg_sentiment + 1000) * 20)
    ELSE StoredScore(friendship.intimacy_score)

\* the FriendRanking built for one entry of friend_data (lines 121-196)
FriendRanking(entry, rows, cur, start_date, days) ==
    LET trend == Trend(recent_messages(rows, cur, entry.friend, start_date),
                       start_date, days)
    IN  [friend_id |-> entry.friend,
         intimacy_score |-> ResolveIntimacy(entry.friendship, rows, cur,
                                            entry.friend),
         interaction_count |-> entry.friendship.interaction_count,
         last_interaction |-> last_interaction(rows, cur, entry.friend),
         activity_trend |-> [i \in 1..Len(trend) |->
                                [date |-> trend[i].date,
                                 count |-> trend[i].count]],
         score_trend |-> [i \in 1..Len(trend) |->
                             [date |-> trend[i].date,
                              score |-> trend[i].score]]]

RECURSIVE SortByScore_ascending(_)
\* mutant of SortByScore: the lowest score comes first
SortByScore_ascending(rankings) ==
    IF rankings = <<>> THEN <<>>
    ELSE LET rest == SortByScore_ascending(Tail(rankings))
             head == Head(rankings)
             k == Cardinality({i \in 1..Len(rest) :
                      rest[i].intimacy_score < head.intimacy_score})
         IN  SubSeq(rest, 1, k) \o <<head>> \o SubSeq(rest, k + 1, Len(rest))

RECURSIVE SortByScore(_)
\* list.sort(key=intimacy_score, reverse=True), line 199: descending and
\* stable
SortByScore(rankings) ==
    IF rankings = <<>> THEN <<>>
    ELSE LET rest == SortByScore(Tail(rankings))
             head == Head(rankings)
             k == Cardinality({i \in 1..Len(rest) :
                      rest[i].intimacy_score > head.intimacy_score})
         IN  SubSeq(rest, 1, k) \o <<head>> \o SubSeq(rest, k + 1, Len(rest))

\* get_top_friends, lines 62-203: the list returned when the clock reads now
get_top_friends(friends, rows, cur, limit, days, now) ==
    LET end_date == now
        start_date == end_date - timedelta(days - 1)
        data == friend_data(AcceptedEntries(friends, cur))
        friend_rankings ==
            SortByScore([i \in 1..Len(data) |->
                            FriendRanking(data[i], rows, cur, start_date, days)])
    IN  IF limit > 0
        THEN SubSeq(friend_rankings, 1, Min(limit, Len(friend_rankings)))
        ELSE friend_rankings

\* mutant of GetTopFriends: a recomputed score is written back to its row
GetTopFriends_writesBack(cur, limit, days, now) ==
    /\ response' = [op |-> "get_top_friends", status_code |-> 200,
                    cur |-> cur, limit |-> limit, days |-> days, now |-> now,
                    body |-> get_top_friends(friendships, messages, cur,
                                             limit, days, now)]
    /\ friendships' =
           [i \in 1..Len(friendships) |->
               IF /\ friendships[i].status = "accepted"
                  /\ friendships[i].user_id = cur
                  /\ OrZero(friendships[i].intimacy_score) = 0
               THEN [friendships[i] EXCEPT !.intimacy_score =
                        ResolveIntimacy(friendships[i], messages, cur,
                                        friendships[i].friend_id) \div 100]
               ELSE friendships[i]]
    /\ UNCHANGED <<chatVars, messages, requests>>

\* the endpoint GET /rankings/top-friends
GetTopFriends(cur, limit, days, now) ==
    /\ response' = [op |-> "get_top_friends", status_code |-> 200,
                    cur |-> cur, limit |-> limit, days |-> days, now |-> now,
                    body |-> get_top_friends(friendships, messages, cur,
                                             limit, days, now)]
    /\ UNCHANGED <<chatVars, messages, friendships, requests>>

\* a friendships row an earlier request stored
RankRow(a, b, status, score) ==
    [user_id |-> a, friend_id |-> b, status |-> status,
     intimacy_score |-> score, interaction_count |-> 0, created_at |-> 0]

StoredScores == {Unset, 0, 5, 250}

\* the rows a pair may have: none, one in either orientation, or two
PairTables(a, b) ==
    {<<>>, <<RankRow(a, b, "pending", 0)>>, <<RankRow(b, a, "blocked", 0)>>}
    \cup {<<RankRow(a, b, "accepted", sc)>> : sc \in StoredScores}
    \cup {<<RankRow(b, a, "accepted", sc)>> : sc \in StoredScores}
    \cup {<<RankRow(a, b, "accepted", 5), RankRow(b, a, "accepted", 250)>>,
          <<RankRow(b, a, "accepted", 250), RankRow(a, b, "accepted", 5)>>,
          <<RankRow(a, b, "pending", 0), RankRow(b, a, "accepted", 250)>>,
          <<RankRow(a, b, "accepted", 250), RankRow(a, b, "accepted", 5)>>}

InitialRankFriendships ==
    {p \o q : p \in PairTables(1, 2),
              q \in {<<>>, <<RankRow(1, NumRankUsers, "accepted", 0)>>,
                     <<RankRow(NumRankUsers, 1, "accepted", 250)>>,
                     <<RankRow(1, NumRankUsers, "pending", 0)>>}}

\* the k-th of n stored rows: the newest was stored at tick ManyMessages
StoredRankMessage(k, n, pattern) ==
    LET peer == IF pattern = "one" \/ k % 3 = 1 THEN 2 ELSE NumRankUsers
        self == IF pattern = "mixed" /\ k % 3 = 2 THEN 2 ELSE 1
        score == CASE k % 4 = 0 -> None
                   [] k % 4 = 1 -> "0.8"
                   [] k % 4 = 2 -> "-0.5"
                   [] OTHER     -> "0.0"
    IN  [id |-> k,
         sender_id |-> IF k % 2 = 1 THEN self ELSE peer,
         receiver_id |-> IF k % 2 = 1 THEN peer ELSE self,
         content |-> "hi", is_read |-> FALSE,
         sentiment_score |-> score, positive_score |-> Placeholder,
         negative_score |-> Placeholder, neutral_score |-> Placeholder,
         created_at |-> ManyMessages - n + k]

InitialRankMessages ==
    {[k \in 1..n |-> StoredRankMessage(k, n, pattern)] :
        n \in {0, FewMessages, ManyMessages}, pattern \in {"one", "mixed"}}

InitRanking ==
    /\ pc = [s \in Sessions |-> "new"]
    /\ user_id = [s \in Sessions |-> 0]
    /\ friend_id = [s \in Sessions |-> 0]
    /\ closeCode = [s \in Sessions |-> 0]
    /\ accepted = [s \in Sessions |-> FALSE]
    /\ active_connections = EmptyDict
    /\ messages \in InitialRankMessages
    /\ friendships \in InitialRankFriendships
    /\ delivered = [s \in Sessions |-> <<>>]
    /\ iter = [s \in Sessions |-> NoFrame]
    /\ response_data = [s \in Sessions |-> NoPayload]
    /\ last = NoStep
    /\ sendStart = [s \in Sessions |-> {}]
    /\ origin = [k \in 1..Len(messages) |-> 0]
    /\ requests = {}
    /\ response = NoResponse

RankingNext ==
    \E cur \in Users, limit \in 0..MaxLimit, days \in 1..MaxDays,
       now \in {ManyMessages, ManyMessages + 1} :
        GetTopFriends(cur, limit, days, now)

\* GET /rankings/top-friends on stored friendships and messages tables
SpecRanking == InitRanking /\ [][RankingNext]_vars

\* ---------------------------------------------------------------- intimacy
\* mutant of MaxConsecutive: the count of the lowest user id
MaxConsecutive_firstKey(consecutive_messages) ==
    IF DOMAIN consecutive_messages = {} THEN 0
    ELSE consecutive_messages[CHOOSE u \in DOMAIN consecutive_messages :
                                  \A w \in DOMAIN consecutive_messages : u <= w]

\* max(consecutive_messages.values()) if consecutive_messages else 0
MaxConsecutive(consecutive_messages) ==
    IF DOMAIN consecutive_messages = {} THEN 0
    ELSE LET values == {consecutive_messages[u] : u \in DOMAIN consecutive_messages}
         IN  CHOOSE v \in values : \A w \in values : w <= v

\* the four factors of calculate_intimacy, in thousandths (lines 184-211)
Factors(sentiment_scores, message_count, last_sender_id, current_user_id, consecutive_messages) ==
    LET avg_sentiment == average_sentiment(sentiment_scores)
        max_consecutive == MaxConsecutive(consecutive_messages)
    IN  [sentiment_factor |-> ((avg_sentiment + 1000) * 40) \div 2,
         frequency_factor |-> IF message_count > 0
                              THEN Min(30000, log(message_count + 1) * 10)
                              ELSE 0,
         flow_factor |-> IF last_sender_id # current_user_id
                         THEN 20000 ELSE 10000,
         consecutive_factor |-> IF max_consecutive <= 3 THEN 10000
                            ELSE IF max_consecutive <= 5 THEN 7000
                            ELSE IF max_consecutive <= 10 THEN 4000
                            ELSE 0]

Max(a, b) == IF a >= b THEN a ELSE b

\* mutant of calculate_intimacy: the sum is returned as it is
calculate_intimacy_unclamped(sentiment_scores, message_count, last_sender_id, current_user_id, consecutive_messages) ==
    LET f == Factors(sentiment_scores, message_count, last_sender_id,
                     current_user_id, consecutive_messages)
    IN  [intimacy_score |-> f.sentiment_factor + f.frequency_factor
                                + f.flow_factor + f.consecutive_factor,
         sentiment_factor |-> f.sentiment_factor,
         frequency_factor |-> f.frequency_factor,
         flow_factor |-> f.flow_factor,
         consecutive_factor |-> f.consecutive_factor]

\* analysis_service.py lines 164-223: the IntimacyResult
calculate_intimacy(sentiment_scores, message_count, last_sender_id, current_user_id, consecutive_messages) ==
    LET f == Factors(sentiment_scores, message_count, last_sender_id,
                     current_user_id, consecutive_messages)
    IN  [intimacy_score |-> Max(0, Min(ScoreCap,
                                f.sentiment_factor + f.frequency_factor
                                    + f.flow_factor + f.consecutive_factor)),
         sentiment_factor |-> f.sentiment_factor,
         frequency_factor |-> f.frequency_factor,
         flow_factor |-> f.flow_factor,
         consecutive_factor |-> f.consecutive_factor]

\* a call of AnalysisService.calculate_intimacy
CalculateIntimacy(sentiment_scores, message_count, last_sender_id, current_user_id, consecutive_messages) ==
    /\ response' = [op |-> "calculate_intimacy",
                    sentiment_scores |-> sentiment_scores,
                    message_count |-> message_count,
                    last_sender_id |-> last_sender_id,
                    current_user_id |-> current_user_id,
                    consecutive_messages |-> consecutive_messages,
                    result |-> calculate_intimacy(sentiment_scores,
                                   message_count, last_sender_id,
                                   current_user_id, consecutive_messages)]
    /\ UNCHANGED <<chatVars, messages, friendships, requests>>

\* sentiment values inside and outside [-1, 1], in thousandths
SentimentInputs == {-5000, 800, 5000}

SentimentLists ==
    UNION {[1..n -> SentimentInputs] : n \in 0..MaxSentiments}

\* message counts: none, one, past the cap of the frequency factor, huge
CountInputs == {0, 1, 20, 1000000}

\* consecutive maps: empty, at each threshold, beyond, extreme
ConsecutiveInputs ==
    {EmptyDict, (1 :> 3), (1 :> 2) @@ (2 :> 4), (1 :> 4) @@ (2 :> 5), (1 :> 6),
     (1 :> 2) @@ (2 :> 10), (1 :> 11), (1 :> 1000000)}

IntimacyNext ==
    \E sentiment_scores \in SentimentLists, message_count \in CountInputs,
       last_sender_id \in {Unset} \cup Users, current_user_id \in Users,
       consecutive_messages \in ConsecutiveInputs :
        CalculateIntimacy(sentiment_scores, message_count, last_sender_id,
                          current_user_id, consecutive_messages)

\* AnalysisService.calculate_intimacy on drawn inputs
SpecIntimacy == Init /\ [][IntimacyNext]_vars

\* ------------------------------------------------------------ whole system
\* the statuses a client may put in a FriendshipUpdate
StatusInputs == valid_statuses \cup {"friends"}

\* mutant of UpdateFriendshipRequest: the status is stored as it comes
UpdateFriendshipRequest_anyStatus(cur, fid, status) ==
    /\ IF FindFriendship(friendships, cur, fid) = 0
       THEN /\ response' = [op |-> "update_friendship", status_code |-> 404]
            /\ UNCHANGED friendships
       ELSE /\ response' = [op |-> "update_friendship", status_code |-> 200,
                            cur |-> cur, fid |-> fid, status |-> status]
            /\ friendships' =
                   [friendships EXCEPT
                       ![FindFriendship(friendships, cur, fid)].status = status]
    /\ UNCHANGED <<chatVars, messages, requests>>

\* the endpoint PUT /friends/{friend_id}, lines 141-166, with its answer
UpdateFriendshipRequest(cur, fid, status) ==
    /\ IF FindFriendship(friendships, cur, fid) = 0
       THEN /\ response' = [op |-> "update_friendship", status_code |-> 404]
            /\ UNCHANGED friendships
       ELSE IF status \notin valid_statuses
       THEN /\ response' = [op |-> "update_friendship", status_code |-> 400,
                            cur |-> cur, fid |-> fid, status |-> status]
            /\ UNCHANGED friendships
       ELSE /\ response' = [op |-> "update_friendship", status_code |-> 200,
                            cur |-> cur, fid |-> fid, status |-> status]
            /\ friendships' =
                   [friendships EXCEPT
                       ![FindFriendship(friendships, cur, fid)].status = status]
    /\ UNCHANGED <<chatVars, messages, requests>>

\* the friendships table the system starts from: empty, or one row whose
\* counters earlier conversations have raised
SystemFriendships ==
    {<<>>}
    \cup {<<[user_id |-> 1, friend_id |-> 2, status |-> "accepted",
             intimacy_score |-> Min(IntimacyCap, k * IntimacyStep),
             interaction_count |-> k, created_at |-> 0]>> : k \in InitialCounts}

InitSystem ==
    /\ pc = [s \in Sessions |-> "new"]
    /\ user_id = [s \in Sessions |-> 0]
    /\ friend_id = [s \in Sessions |-> 0]
    /\ closeCode = [s \in Sessions |-> 0]
    /\ accepted = [s \in Sessions |-> FALSE]
    /\ active_connections = EmptyDict
    /\ messages = <<>>
    /\ friendships \in SystemFriendships
    /\ delivered = [s \in Sessions |-> <<>>]
    /\ iter = [s \in Sessions |-> NoFrame]
    /\ response_data = [s \in Sessions |-> NoPayload]
    /\ last = NoStep
    /\ sendStart = [s \in Sessions |-> {}]
    /\ origin = <<>>
    /\ requests = {}
    /\ response = NoResponse

SystemNext ==
    \/ SessionNext(SystemSessions, {ObjHi}, SystemMessages)
    \/ \E cur \in Users, fid \in UserIds : AddFriendLookup(cur, fid)
    \/ \E req \in requests : AddFriendInsert(req)
    \/ \E cur \in Users, fid \in UserIds : RemoveFriend(cur, fid)
    \/ \E cur \in Users, fid \in UserIds, status \in StatusInputs :
          UpdateFriendshipRequest(cur, fid, status)
    \/ \E cur \in Users, fid \in Users : MarkMessagesAsRead(cur, fid)
    \/ \E cur \in Users, fid \in Users : GetChatHistory(cur, fid, 0, SystemMessages)
    \/ \E cur \in Users : GetTopFriends(cur, 0, 1, SystemMessages + 1)

\* every operation of the backend, on one websocket
SpecSystem == InitSystem /\ [][SystemNext]_vars

\* ------------------------------------------------------------- slow client
\* the websockets whose client has stopped reading: a send_text to one of
\* them stays suspended
Hanging == {NumSessions}

\* the awaited send_text of line 59 to a client that reads returns or raises
SendCompletes(s) ==
    /\ iter[s].cur \notin Hanging
    /\ \E ok \in BOOLEAN : SendStep(s, ok)

\* the awaited echo of line 136 to a client that reads returns or raises
EchoCompletes(s) ==
    /\ s \notin Hanging
    /\ \E ok \in BOOLEAN : Echo(s, ok)

\* the event loop resumes every coroutine whose await has completed; nothing
\* resumes a send to a client that has stopped reading
SpecSlowClient ==
    /\ Init
    /\ [][RegistryNext]_vars
    /\ \A s \in Sessions : WF_vars(SendCompletes(s)) /\ WF_vars(EchoCompletes(s))

\* ----------------------------------------------------------------- claims
\* the payload a websocket has been handed
Got(c, payload) == InSeq(payload, delivered[c])

\* a step in which the send_personal_message call of session s returns
SendReturns(s) == pc[s] = "sending" /\ pc'[s] = "echo"

\* the connections that call collected in `disconnected`, seen on the step
\* in which it returns: the earlier failures and, when the last send_text
\* handed nothing over, the last connection
BrokenAtReturn(s) ==
    Range(iter[s].disconnected)
        \cup (IF delivered'[iter[s].cur] = delivered[iter[s].cur]
              THEN {iter[s].cur} ELSE {})

\* C1: when a send_personal_message call has returned, every channel that
\* was registered under the recipient from the start of the call until now
\* has been handed the payload, whatever connect and disconnect calls other
\* sessions made while the call was suspended.
C1_NoRegisteredChannelSkipped ==
    \A s \in Sessions :
        pc[s] = "echo" =>
            \A c \in sendStart[s] \cap Channels(active_connections, friend_id[s]) :
                Got(c, response_data[s])

\* C2: when send_text failed on a channel during a send_personal_message
\* call, then on return the failing channels are unregistered, every other
\* channel registered under the recipient throughout the call has been
\* handed the payload, and the caller goes on to its echo.
C2_FailureIsolated ==
    [][\A s \in Sessions :
          (SendReturns(s) /\ BrokenAtReturn(s) # {}) =>
              /\ BrokenAtReturn(s) \cap Registered(active_connections') = {}
              /\ \A c \in sendStart[s] \cap Channels(active_connections', friend_id[s]) :
                    InSeq(response_data[s], delivered'[c])]_vars

\* a step in which session s stores a message
Persists(s) ==
    pc[s] = "recv" /\ pc'[s] # "recv" /\ Len(messages') = Len(messages) + 1

\* C3: a session that sends to a peer with no registered channel raises
\* nothing and leaves the registry as it is; the message is stored, and the
\* echo that follows hands the sender the payload of that message.
C3_AbsentPeerTolerated ==
    /\ [][\A s \in Sessions :
            (Persists(s) /\ Channels(active_connections, friend_id[s]) = {}) =>
                /\ active_connections' = active_connections
                /\ delivered' = delivered
                /\ pc'[s] = "echo"
                /\ response_data'[s] = ResponseData(messages'[Len(messages')])]_vars
    /\ [][\A s \in Sessions :
            (pc[s] = "echo" /\ sendStart[s] = {} /\ pc'[s] = "recv") =>
                /\ delivered'[s] = Append(delivered[s], response_data[s])
                /\ \E i \in 1..Len(messages) :
                       response_data[s] = ResponseData(messages[i])]_vars

\* C3 witness: a session has its acknowledgment and no other session ever
\* existed, so its peer (another user) had no channel
C3_Witness ==
    \E s \in Sessions :
        /\ pc[s] = "recv"
        /\ Len(delivered[s]) = 1
        /\ delivered[s][1].receiver_id # delivered[s][1].sender_id
        /\ \A c \in Sessions \ {s} : pc[c] = "new"

\* an attempt the endpoint has to refuse
BadAttempt(tok, fid) ==
    \/ tok.kind \in {"invalid", "nosub", "badsub"}
    \/ tok.kind = "valid" /\ tok.sub \notin {"1", "2"}
    \/ fid \notin Users

\* C4: an attempt with an invalid token, no usable subject, an unknown
\* sender or an unknown peer is closed with the policy-violation status and
\* touches neither the registry nor the messages; a refused session is never
\* registered, never handed a payload and never runs again.
C4_BadAttemptRefused ==
    /\ [][\A s \in Sessions, tok \in Tokens, fid \in UserIds :
            (Authenticate(s, tok, fid) /\ BadAttempt(tok, fid)) =>
                /\ pc'[s] = "refused"
                /\ closeCode'[s] = WS_1008_POLICY_VIOLATION
                /\ UNCHANGED <<active_connections, messages, delivered, accepted>>]_vars
    /\ [](\A s \in Sessions :
            pc[s] = "refused" =>
                /\ closeCode[s] = WS_1008_POLICY_VIOLATION
                /\ ~accepted[s]
                /\ s \notin Registered(active_connections)
                /\ delivered[s] = <<>>)
    /\ [][\A s \in Sessions : pc[s] = "refused" => pc'[s] = "refused"]_vars

\* C4 witness: a refused session next to a session that has chatted
C4_Witness ==
    \E s, r \in Sessions :
        pc[s] = "refused" /\ pc[r] = "recv" /\ delivered[r] # <<>>

\* C5: a registered websocket has had its handshake accepted, and a connect
\* whose accept fails leaves the registry exactly as it was.
C5_RegisteredAfterAccept ==
    /\ [](\A c \in Registered(active_connections) : accepted[c])
    /\ [][\A s \in Sessions :
            (pc[s] = "accepting" /\ pc'[s] = "failed") =>
                active_connections' = active_connections]_vars

\* C5 witness: an accept failed while another websocket was registered
C5_Witness ==
    \E s \in Sessions :
        pc[s] = "failed" /\ ~accepted[s] /\ Registered(active_connections) # {}

\* C6: no key of the registry maps to an empty list.
C6_NoEmptyEntry ==
    \A u \in DOMAIN active_connections : active_connections[u] # <<>>

\* C6 witness: a disconnect has just removed the last channel of the registry
C6_Witness ==
    last.reg /\ DOMAIN active_connections = {}

\* a step that ends the receive loop of session s
LoopEnds(s) == pc[s] \in {"recv", "sending", "echo"} /\ pc'[s] \in {"closed", "failed"}

\* C7: the disconnect of an ending session removes that session's websocket
\* and no other, keeps the order of the rest, and changes nothing when the
\* websocket is not registered (any more); the clean-up of a send removes
\* the broken websockets and no other.
C7_DisconnectIdempotent ==
    /\ [][\A s \in Sessions :
            LoopEnds(s) =>
                /\ Registered(active_connections') = Registered(active_connections) \ {s}
                /\ s \notin Registered(active_connections) =>
                       active_connections' = active_connections]_vars
    /\ [][\A s \in Sessions :
            SendReturns(s) =>
                Registered(active_connections') =
                    Registered(active_connections) \ BrokenAtReturn(s)]_vars

\* C7 witness: a session has just ended whose websocket a failed delivery had
\* unregistered before, while other websockets are registered
C7_Witness ==
    /\ last.exc # None
    /\ ~last.reg
    /\ Registered(active_connections) # {}

\* C8: the websocket of a session that ended by disconnect or by an error of
\* its loop is not registered, the session never runs again, and a message
\* is stored only by a session that is waiting in its receive loop.
C8_EndedSessionUnregistered ==
    /\ [](\A s \in Sessions :
            pc[s] \in {"closed", "failed"} => s \notin Registered(active_connections))
    /\ [][\A s \in Sessions : pc[s] \in Ended => pc'[s] = pc[s]]_vars
    /\ [][messages' # messages => \E s \in Sessions : Persists(s)]_vars

\* C8 witness: one session ended by disconnect and one by an error of its
\* loop, after a message was stored
C8_Witness ==
    \E s, r \in Sessions :
        /\ pc[s] = "closed"
        /\ pc[r] = "failed" /\ accepted[r]
        /\ messages # <<>>

\* str.strip() leaves nothing
IsBlank(content) == content \in {"", " "}

\* the texts whose extracted content is empty or blank
BlankTexts == {text \in RawTexts :
                  ParseContent(text).raises = None /\ IsBlank(ParseContent(text).content)}

\* C9 as stated: a text whose extracted content is empty or blank stores no
\* message, changes no friendship, sends nothing and leaves the session
\* waiting.
C9_BlankContentIgnored ==
    [][\A s \in Sessions, text \in BlankTexts :
          Receive(s, text, TRUE) =>
              /\ UNCHANGED <<messages, friendships, delivered, active_connections>>
              /\ pc'[s] = "recv"]_vars

\* the texts whose extracted content is the empty string
EmptyTexts == {text \in RawTexts :
                  ParseContent(text).raises = None /\ ParseContent(text).content = ""}

\* C9 as amended: a text whose extracted content is empty stores no message,
\* changes no friendship, sends nothing, leaves the registry alone and
\* leaves the session waiting for the next text.
C9_EmptyContentIgnored ==
    [][\A s \in Sessions, text \in EmptyTexts :
          (\E dbOk \in BOOLEAN : Receive(s, text, dbOk)) =>
              /\ UNCHANGED <<messages, friendships, delivered, active_connections>>
              /\ pc'[s] = "recv"]_vars

\* C9 witness: a session that has stored a message has just skipped a text
\* of empty content and is waiting again
C9_Witness ==
    /\ last.op = "Receive"
    /\ last.exc = None
    /\ last.text \in EmptyTexts
    /\ pc[last.s] = "recv"
    /\ messages # <<>>

\* the texts that are no structured {content} object
RawStringTexts == {text \in RawTexts : json_loads(text).type # "dict"}

\* C10: a non-empty raw string is stored whole as the content of a message
\* and the session stays open.
C10_RawStringTaken ==
    [][\A s \in Sessions, text \in RawStringTexts \ {""} :
          Receive(s, text, TRUE) =>
              /\ pc'[s] \notin Ended
              /\ Len(messages') = Len(messages) + 1
              /\ messages'[Len(messages')].content = text]_vars

\* the texts whose extracted content is not empty
ContentTexts == {text \in RawTexts :
                    ParseContent(text).raises = None /\ ~Falsy(ParseContent(text).content)}

\* C11: a text with non-empty content, once its insert commits, adds exactly
\* one row to the messages table, with or without a friendship row for the
\* pair: sender_id is the session's user, receiver_id the session's peer,
\* content the extracted content and is_read false; the rows stored before
\* stay as they are, and no other step adds, drops or changes a row, so the
\* rows of a session are as many as its texts with non-empty content.
C11_OneRowPerPayload ==
    /\ [][\A s \in Sessions, text \in ContentTexts :
            Receive(s, text, TRUE) =>
                /\ Len(messages') = Len(messages) + 1
                /\ SubSeq(messages', 1, Len(messages)) = messages
                /\ messages'[Len(messages')].sender_id = user_id[s]
                /\ messages'[Len(messages')].receiver_id = friend_id[s]
                /\ messages'[Len(messages')].content = ParseContent(text).content
                /\ messages'[Len(messages')].is_read = FALSE
                /\ \A i \in 1..Len(messages) :
                       messages[i].id # messages'[Len(messages')].id]_vars
    /\ [][messages' # messages =>
            \E s \in Sessions, text \in ContentTexts : Receive(s, text, TRUE)]_vars

\* C11 witness: two rows of the same pair of distinct users are stored, one
\* written before the pair had a friendship row and one after
C11_Witness ==
    /\ Len(messages) = 2
    /\ messages[1].sender_id # messages[1].receiver_id
    /\ {messages[2].sender_id, messages[2].receiver_id}
           = {messages[1].sender_id, messages[1].receiver_id}
    /\ \E i \in 1..Len(friendships) :
           /\ {friendships[i].user_id, friendships[i].friend_id}
                  = {messages[1].sender_id, messages[1].receiver_id}
           /\ friendships[i].interaction_count = 1

\* the environments in which the analyzer raises / returns a result
FailingEnvs == {env \in AnalyzerEnvs : analyze_sentiment_llm("hi", env).raises # None}
SucceedingEnvs == AnalyzerEnvs \ FailingEnvs

\* the fields of the outbound payload
PayloadFields == {"id", "sender_id", "receiver_id", "content", "is_read", "created_at"}
                     \cup SentimentFields

\* C12: when the analyzer fails on the content of a message, the row is
\* stored with its four sentiment fields None, the outbound payload has the
\* four sentiment fields and None in each, and the session goes on to its
\* sends and its echo.
C12_EnrichmentFailureTolerated ==
    [][\A s \in Sessions, text \in ContentTexts, env \in FailingEnvs :
          Receive(s, text, TRUE) =>
              /\ Len(messages') = Len(messages) + 1
              /\ pc'[s] \in {"sending", "echo"}
              /\ \A f \in SentimentFields : messages'[Len(messages')][f] = None
              /\ SentimentFields \subseteq DOMAIN response_data'[s]
              /\ \A f \in SentimentFields : response_data'[s][f] = None]_vars

\* C13: when the analyzer returns a result for the content of a message, the
\* stored row has the four returned scores and the outbound payload carries
\* the same four.
C13_EnrichmentStored ==
    [][\A s \in Sessions, text \in ContentTexts, env \in SucceedingEnvs :
          Receive(s, text, TRUE) =>
              /\ Len(messages') = Len(messages) + 1
              /\ \A f \in SentimentFields :
                     messages'[Len(messages')][f] =
                         analyze_sentiment_llm(ParseContent(text).content, env)[f]
              /\ SentimentFields \subseteq DOMAIN response_data'[s]
              /\ \A f \in SentimentFields :
                     response_data'[s][f] = messages'[Len(messages')][f]]_vars

\* C14: an outbound payload has exactly the ten fields of PayloadFields, and
\* each sentiment field of it is that of the stored row (None exactly when
\* the row has none).
C14_PayloadFields ==
    \A s \in Sessions :
        response_data[s] # NoPayload =>
            /\ DOMAIN response_data[s] = PayloadFields
            /\ \A f \in SentimentFields :
                   response_data[s][f] = messages[response_data[s].id][f]

\* C15: the acknowledgment a session hands its own websocket is the payload
\* its send_personal_message call handed the recipient's websockets, field
\* for field, and it is the payload of the row this turn stored: every text
\* handed to a websocket is the payload of the stored row whose id it
\* carries, and the echo of a turn is the payload of that turn, sent by the
\* session's user.
C15_EchoIdentical ==
    /\ [](\A c \in Sessions : \A i \in 1..Len(delivered[c]) :
            /\ delivered[c][i].id \in 1..Len(messages)
            /\ delivered[c][i] = ResponseData(messages[delivered[c][i].id]))
    /\ [][\A s \in Sessions :
            (pc[s] = "echo" /\ pc'[s] = "recv") =>
                /\ delivered'[s] = Append(delivered[s], response_data[s])
                /\ response_data[s].sender_id = user_id[s]
                /\ response_data[s].receiver_id = friend_id[s]
                /\ \A c \in Sessions : \A i \in 1..Len(delivered[c]) :
                       delivered[c][i].id = response_data[s].id =>
                           delivered[c][i] = response_data[s]]_vars

\* C15 witness: the sender has its acknowledgment and the websocket of its
\* peer, another user, has the same payload, while an older row is stored
C15_Witness ==
    \E s, c \in Sessions :
        /\ s # c
        /\ pc[s] = "recv"
        /\ delivered[s] # <<>> /\ delivered[c] # <<>>
        /\ delivered[s][Len(delivered[s])] = delivered[c][Len(delivered[c])]
        /\ delivered[s][Len(delivered[s])].sender_id = user_id[s]
        /\ delivered[s][Len(delivered[s])].receiver_id = user_id[c]
        /\ user_id[s] # user_id[c]
        /\ delivered[s][Len(delivered[s])].id = 2

\* C16: when the insert of a message fails, nothing is stored, sent or
\* acknowledged for that text, and the session stays registered and waits
\* for its next text.
C16_PersistenceFailureSurvived ==
    [][\A s \in Sessions, text \in ContentTexts :
          Receive(s, text, FALSE) =>
              /\ UNCHANGED <<messages, friendships, delivered>>
              /\ pc'[s] = "recv"
              /\ Registered(active_connections') = Registered(active_connections)]_vars

\* the friendship row of the pair of session s, 0 when there is none
PairRow(s) == FindFriendship(friendships, user_id[s], friend_id[s])

\* C17: a message stored while the pair has a friendship row, whichever of
\* the two users the row names first and whatever its status, adds exactly 1
\* to the row's interaction_count and sets its intimacy_score to the
\* smaller of 100.0 and the previous score plus 0.1, a NULL counting as 0;
\* it changes nothing else of the row and no other row.
C17_RelationshipBumped ==
    [][\A s \in Sessions, text \in ContentTexts :
          (Receive(s, text, TRUE) /\ PairRow(s) # 0) =>
              /\ Len(friendships') = Len(friendships)
              /\ friendships'[PairRow(s)].interaction_count =
                     OrZero(friendships[PairRow(s)].interaction_count) + 1
              /\ friendships'[PairRow(s)].intimacy_score =
                     Min(IntimacyCap,
                         OrZero(friendships[PairRow(s)].intimacy_score) + IntimacyStep)
              /\ friendships'[PairRow(s)].status = friendships[PairRow(s)].status
              /\ friendships'[PairRow(s)].user_id = friendships[PairRow(s)].user_id
              /\ friendships'[PairRow(s)].friend_id = friendships[PairRow(s)].friend_id
              /\ \A j \in 1..Len(friendships) :
                     j # PairRow(s) => friendships'[j] = friendships[j]]_vars

\* C17 witness: a blocked row that the receiver of the newest message
\* created has been counted past the point where its score reached 100.0
C17_Witness ==
    /\ messages # <<>>
    /\ \E i \in 1..Len(friendships) :
           /\ friendships[i].status = "blocked"
           /\ friendships[i].user_id = messages[Len(messages)].receiver_id
           /\ friendships[i].friend_id = messages[Len(messages)].sender_id
           /\ friendships[i].intimacy_score = IntimacyCap
           /\ friendships[i].interaction_count * IntimacyStep > IntimacyCap

\* the messages of the pair of friendship row i stored since the row exists
CountedMessages(i) ==
    {k \in 1..Len(messages) :
        /\ messages[k].created_at > friendships[i].created_at
        /\ {messages[k].sender_id, messages[k].receiver_id}
               = {friendships[i].user_id, friendships[i].friend_id}}

\* C18: whatever the interleaving of the sessions of a pair, the
\* interaction_count of the pair's friendship row is the number of messages
\* of the pair, in either direction, stored since the row exists: no
\* increment is lost and none is applied twice.
C18_NoLostIncrement ==
    \A i \in 1..Len(friendships) :
        friendships[i].interaction_count = Cardinality(CountedMessages(i))

\* C18 witness: two sessions, one in each direction of the pair, have each
\* stored a message and are both still in their sends; the row counts 2
C18_Witness ==
    /\ Len(messages) = 2
    /\ messages[1].sender_id = messages[2].receiver_id
    /\ messages[2].sender_id = messages[1].receiver_id
    /\ messages[1].sender_id # messages[1].receiver_id
    /\ \A s \in 1..PipelineSessions : pc[s] \in {"sending", "echo"}
    /\ \E i \in 1..Len(friendships) : friendships[i].interaction_count = 2

\* C19: the rows of one session are stored in the order in which it received
\* their texts, each with a larger id and a later created_at than the rows
\* before, and a session takes its next text only when the sends and the
\* echo of the previous one are over; so every websocket, the sender's own
\* included, is handed the payloads of one session in that order.
C19_SessionOrderKept ==
    /\ [](\A c \in Sessions : \A i, j \in 1..Len(delivered[c]) :
            (i < j /\ origin[delivered[c][i].id] = origin[delivered[c][j].id]) =>
                delivered[c][i].id <= delivered[c][j].id)
    /\ [](\A i, j \in 1..Len(messages) :
            i < j => /\ messages[i].id < messages[j].id
                     /\ messages[i].created_at < messages[j].created_at)
    /\ [][\A s \in Sessions :
            Persists(s) =>
                /\ pc[s] = "recv" /\ iter[s] = NoFrame
                /\ origin' = Append(origin, s)
                /\ \A c \in Sessions : \A i \in 1..Len(delivered[c]) :
                       delivered[c][i].id < messages'[Len(messages')].id]_vars

\* C19 witness: one session has stored two messages, and both its own
\* websocket and the websocket of its peer hold the two payloads
C19_Witness ==
    \E s, c \in Sessions :
        /\ s # c
        /\ origin = <<s, s>>
        /\ Len(delivered[s]) = 2 /\ Len(delivered[c]) = 2
        /\ delivered[s][1].id = 1 /\ delivered[s][2].id = 2
        /\ delivered[c][1].id = 1 /\ delivered[c][2].id = 2

\* C20: a payload is handed only to a websocket of the user the message is
\* addressed to, or to the websocket of the session that stored the message;
\* a websocket of any other user, and any other websocket of the sender,
\* never gets it.
C20_OnlyRecipientAndSender ==
    [][\A c \in Sessions :
          delivered'[c] # delivered[c] =>
              /\ Len(delivered'[c]) = Len(delivered[c]) + 1
              /\ SubSeq(delivered'[c], 1, Len(delivered[c])) = delivered[c]
              /\ \/ user_id[c] = delivered'[c][Len(delivered'[c])].receiver_id
                 \/ c = origin[delivered'[c][Len(delivered'[c])].id]]_vars

\* C20 witness: the message of one session has reached the websocket of its
\* peer and its own, while a second websocket of the sender's user, still
\* registered, holds nothing
C20_Witness ==
    \E s, c, t \in Sessions :
        /\ origin = <<s>> /\ pc[s] = "recv"
        /\ user_id[c] = messages[1].receiver_id
        /\ user_id[t] = messages[1].sender_id
        /\ messages[1].sender_id # messages[1].receiver_id
        /\ t # s
        /\ t \in Registered(active_connections)
        /\ delivered[s] = <<ResponseData(messages[1])>>
        /\ delivered[c] = <<ResponseData(messages[1])>>
        /\ delivered[t] = <<>>

\* C21: at most one friendship row exists per unordered pair of users,
\* also when both users of a pair send their add_friend requests at the
\* same time.
C21_OneRowPerPair ==
    \A i, j \in 1..Len(friendships) :
        i # j => {friendships[i].user_id, friendships[i].friend_id}
                     # {friendships[j].user_id, friendships[j].friend_id}

\* C22: mark_messages_as_read(friend) by user cur sets is_read on the rows
\* friend sent cur that were unread and changes nothing else of the table,
\* returns the number of those rows, and leaves no unread row of friend for
\* cur, so that the unread count is 0; a repeated call, with no new message
\* in between, returns 0.
C22_MarkReadExact ==
    /\ [][\A cur \in Users, fid \in Users :
            MarkMessagesAsRead(cur, fid) =>
                /\ Len(messages') = Len(messages)
                /\ \A k \in 1..Len(messages) :
                       /\ messages'[k].is_read =
                              (\/ messages[k].is_read
                               \/ /\ messages[k].sender_id = fid
                                  /\ messages[k].receiver_id = cur)
                       /\ [messages'[k] EXCEPT !.is_read = FALSE]
                              = [messages[k] EXCEPT !.is_read = FALSE]
                /\ response'.marked_as_read =
                       Cardinality({k \in 1..Len(messages) :
                           /\ messages[k].sender_id = fid
                           /\ messages[k].receiver_id = cur
                           /\ ~messages[k].is_read})
                /\ UnreadFrom(messages', cur, fid) = {}
                /\ (response.op = "mark_messages_as_read" /\ response.status_code = 200
                        /\ response.cur = cur /\ response.fid = fid)
                       => response'.marked_as_read = 0]_vars
    /\ [][\A cur \in Users, fid \in Users :
            (GetUnreadCount(cur, fid) /\ response.op = "mark_messages_as_read"
                /\ response.status_code = 200
                /\ response.cur = cur /\ response.fid = fid) =>
                    response'.unread_count = 0]_vars

\* C22 witness: a call has marked two rows of a table that holds a third,
\* unread row of another conversation
C22_Witness ==
    /\ response.op = "mark_messages_as_read"
    /\ response.status_code = 200
    /\ response.marked_as_read = 2
    /\ response.cur # response.fid
    /\ \E k \in 1..Len(messages) :
           ~messages[k].is_read /\ messages[k].sender_id = response.fid

\* C23: a payload is handed to a websocket only during the turn that stored
\* its message, by the session of that turn: to the session's own websocket,
\* or to a websocket of a send_personal_message call that found the
\* recipient registered when it started. A connect hands nothing to the new
\* websocket. Every stored row stays in the table and is in the history
\* both its receiver and its sender fetch for the pair.
C23_NoOfflineDelivery ==
    /\ [][\A c \in Sessions :
            delivered'[c] # delivered[c] =>
                \E s \in Sessions :
                    /\ pc[s] \in {"sending", "echo"}
                    /\ delivered'[c] = Append(delivered[c], response_data[s])
                    /\ origin[response_data[s].id] = s
                    /\ \/ c = s /\ pc[s] = "echo"
                       \/ pc[s] = "sending" /\ sendStart[s] # {}]_vars
    /\ [][\A s \in Sessions :
            (pc[s] = "accepting" /\ pc'[s] = "recv") => delivered' = delivered]_vars
    /\ [][\A k \in 1..Len(messages) : messages'[k] = messages[k]]_vars
    /\ [](\A k \in 1..Len(messages) :
            /\ InSeq(messages[k],
                     get_chat_history(messages, messages[k].receiver_id,
                                      messages[k].sender_id, 0, Len(messages)))
            /\ InSeq(messages[k],
                     get_chat_history(messages, messages[k].sender_id,
                                      messages[k].receiver_id, 0, Len(messages))))

\* C23 witness: a message for another user is stored and acknowledged, and a
\* websocket of its receiver, registered since, holds nothing
C23_Witness ==
    \E s, c \in Sessions :
        /\ Len(messages) = 1 /\ origin = <<s>>
        /\ messages[1].sender_id # messages[1].receiver_id
        /\ pc[s] = "recv" /\ delivered[s] = <<ResponseData(messages[1])>>
        /\ pc[c] = "recv" /\ user_id[c] = messages[1].receiver_id
        /\ c \in Registered(active_connections)
        /\ delivered[c] = <<>>

\* the rows of the table exchanged between a and b
Exchanged(a, b) ==
    {k \in 1..Len(messages) :
        {messages[k].sender_id, messages[k].receiver_id} = {a, b}}

\* the number of rows of Exchanged(a, b) more recent than row k
NewerThan(k, a, b) ==
    Cardinality({j \in Exchanged(a, b) : messages[j].created_at > messages[k].created_at})

OnDay(cur, fid, d) ==
    {k \in 1..Len(messages) :
        /\ \/ messages[k].sender_id = cur /\ messages[k].receiver_id = fid
           \/ messages[k].sender_id = fid /\ messages[k].receiver_id = cur
        /\ date(messages[k].created_at) = d}

\* the calendar day of the i-th point of a window of n days ending today
WindowDay(now, n, i) == date(now) - n + i

\* C25: a ranking answered for days = N carries, for every friend, exactly
\* N activity points and N score points, dated by the N consecutive
\* calendar days that end today, in ascending order; a day on which the
\* pair exchanged nothing has count 0 and score 0
C25_TrendPoints ==
    (response.op = "get_top_friends" /\ response.status_code = 200) =>
        \A e \in 1..Len(response.body) :
            LET r == response.body[e]
                N == response.days
            IN  /\ Len(r.activity_trend) = N
                /\ Len(r.score_trend) = N
                /\ \A i \in 1..N :
                       /\ r.activity_trend[i].date =
                              DateIso(WindowDay(response.now, N, i))
                       /\ r.score_trend[i].date =
                              DateIso(WindowDay(response.now, N, i))
                       /\ OnDay(response.cur, r.friend_id,
                                WindowDay(response.now, N, i)) = {} =>
                              /\ r.activity_trend[i].count = 0
                              /\ r.score_trend[i].score = 0

\* a ranking over the widest window in which a friend has a day with
\* messages and a day without
C25_Witness ==
    /\ response.op = "get_top_friends"
    /\ response.days = MaxDays
    /\ \E e \in 1..Len(response.body) :
           /\ \E i \in 1..MaxDays : response.body[e].activity_trend[i].count > 0
           /\ \E i \in 1..MaxDays : response.body[e].activity_trend[i].count = 0

\* C26: for every friend and every calendar day of the window (today and
\* the N-1 days before), the activity count of the day is the number of
\* rows the requester and the friend exchanged whose timestamp falls on
\* that day, the earliest day of the window included
C26_DailyCounts ==
    (response.op = "get_top_friends" /\ response.status_code = 200) =>
        \A e \in 1..Len(response.body) :
            \A i \in 1..response.days :
                response.body[e].activity_trend[i].count =
                    Cardinality(OnDay(response.cur, response.body[e].friend_id,
                                      WindowDay(response.now, response.days, i)))

\* the users with whom cur shares an accepted row, in either orientation
AcceptedFriends(cur) ==
    {u \in RankUsers :
        \E i \in 1..Len(friendships) :
            /\ friendships[i].status = "accepted"
            /\ \/ friendships[i].user_id = cur /\ friendships[i].friend_id = u
               \/ friendships[i].user_id = u /\ friendships[i].friend_id = cur}

\* C27: the ranking is in descending order of intimacy_score; limit = 0
\* returns every friend, limit = L > 0 returns the first min(L, number of
\* friends) entries of the unlimited ranking
C27_SortedAndLimited ==
    (response.op = "get_top_friends" /\ response.status_code = 200) =>
        LET n == Cardinality(AcceptedFriends(response.cur))
            all == get_top_friends(friendships, messages, response.cur, 0,
                                   response.days, response.now)
        IN  /\ \A i, j \in 1..Len(response.body) :
                   i < j => response.body[i].intimacy_score >=
                                response.body[j].intimacy_score
            /\ response.limit = 0 => Len(response.body) = n
            /\ response.limit > 0 =>
                   /\ Len(response.body) = Min(response.limit, n)
                   /\ response.body = SubSeq(all, 1, Min(response.limit, n))

\* a ranking cut to one entry out of two friends, whose entry is the friend
\* met second
C27_Witness ==
    /\ response.op = "get_top_friends"
    /\ response.cur = 1
    /\ response.limit = 1
    /\ Cardinality(AcceptedFriends(1)) = 2
    /\ Len(response.body) = 1
    /\ response.body[1].friend_id = NumRankUsers
    /\ friendships[1].status = "accepted"
    /\ friendships[1].user_id = 1
    /\ friendships[1].friend_id = 2

\* the accepted row of cur and u met first: a row cur created before a
\* row u created, each kind in table order
FirstAccepted(cur, u) ==
    LET own == {i \in 1..Len(friendships) :
                   /\ friendships[i].status = "accepted"
                   /\ friendships[i].user_id = cur
                   /\ friendships[i].friend_id = u}
        other == {i \in 1..Len(friendships) :
                   /\ friendships[i].status = "accepted"
                   /\ friendships[i].user_id = u
                   /\ friendships[i].friend_id = cur}
        from == IF own # {} THEN own ELSE other
    IN  friendships[CHOOSE i \in from : \A j \in from : i <= j]

\* C28: a ranking holds only users who share an accepted row with the
\* requester, in either orientation, each once, and an unlimited ranking
\* holds all of them; a pair with several accepted rows is reported from
\* the row met first; a user whose rows are all pending or blocked is absent
C28_AcceptedOnce ==
    (response.op = "get_top_friends" /\ response.status_code = 200) =>
        /\ \A i \in 1..Len(response.body) :
               /\ response.body[i].friend_id \in AcceptedFriends(response.cur)
               /\ \A j \in 1..Len(response.body) :
                      response.body[i].friend_id = response.body[j].friend_id
                          => i = j
               /\ LET row == FirstAccepted(response.cur,
                                           response.body[i].friend_id)
                  IN  /\ response.body[i].interaction_count =
                             row.interaction_count
                      /\ (row.intimacy_score # Unset /\ row.intimacy_score # 0)
                             => response.body[i].intimacy_score =
                                    StoredScore(row.intimacy_score)
        /\ response.limit = 0 =>
               {response.body[i].friend_id : i \in 1..Len(response.body)} =
                   AcceptedFriends(response.cur)

\* the pair has an accepted row in each orientation and the requester is
\* the user who created the second: the ranking reports the friend once,
\* with the score of the requester's own row
C28_Witness ==
    /\ response.op = "get_top_friends"
    /\ response.cur = 2
    /\ Len(friendships) >= 2
    /\ friendships[1].status = "accepted"
    /\ friendships[1].user_id = 1 /\ friendships[1].friend_id = 2
    /\ friendships[2].status = "accepted"
    /\ friendships[2].user_id = 2 /\ friendships[2].friend_id = 1
    /\ friendships[1].intimacy_score # friendships[2].intimacy_score
    /\ Len(response.body) = 1
    /\ response.body[1].friend_id = 1
    /\ response.body[1].intimacy_score = StoredScore(friendships[2].intimacy_score)

\* the average sentiment_score, in thousandths, of the rows cur and u
\* exchanged that have one; 0 when none has
PairSentiment(cur, u) == average_sentiment(SentimentsOf(Conversation(messages, cur, u)))

\* C29 as stated: the reported intimacy_score is the stored score when it
\* is present and nonzero, and otherwise, over every row of the pair,
\* ((avg + 1) / 2) * 40 + (0 if count = 0 else min(30, ln(count + 1) * 10))
C29_FallbackTwoFactor ==
    (response.op = "get_top_friends" /\ response.status_code = 200) =>
        \A e \in 1..Len(response.body) :
            LET u == response.body[e].friend_id
                row == FirstAccepted(response.cur, u)
                count == Cardinality(Exchanged(response.cur, u))
            IN  response.body[e].intimacy_score =
                    IF row.intimacy_score # Unset /\ row.intimacy_score # 0
                    THEN StoredScore(row.intimacy_score)
                    ELSE ((PairSentiment(response.cur, u) + 1000) * 40) \div 2
                         + (IF count = 0 THEN 0
                            ELSE Min(30000, log(count + 1) * 10))

\* C29, amended: the reported intimacy_score is the stored score when it is
\* present and nonzero, and otherwise, over every row of the pair,
\* min(100, ln(count + 1) * 10 + (avg + 1) * 20): the frequency term is
\* not capped at 30, the total is capped at 100
C29_FallbackScore ==
    (response.op = "get_top_friends" /\ response.status_code = 200) =>
        \A e \in 1..Len(response.body) :
            LET u == response.body[e].friend_id
                row == FirstAccepted(response.cur, u)
                count == Cardinality(Exchanged(response.cur, u))
            IN  response.body[e].intimacy_score =
                    IF row.intimacy_score # Unset /\ row.intimacy_score # 0
                    THEN StoredScore(row.intimacy_score)
                    ELSE Min(ScoreCap,
                             log(count + 1) * 10
                                 + (PairSentiment(response.cur, u) + 1000) * 20)

\* a one-day ranking that recomputes the score of a friend from a history
\* of twenty rows or more, most of them older than the window
C29_Witness ==
    /\ response.op = "get_top_friends"
    /\ response.days = 1
    /\ \E e \in 1..Len(response.body) :
           LET u == response.body[e].friend_id
               row == FirstAccepted(response.cur, u)
           IN  /\ row.intimacy_score = 0 \/ row.intimacy_score = Unset
               /\ Cardinality(Exchanged(response.cur, u)) >= 20
               /\ response.body[e].intimacy_score > 30000

\* the sum of the four factors of an IntimacyResult
FactorSum(result) ==
    result.sentiment_factor + result.frequency_factor
        + result.flow_factor + result.consecutive_factor

\* C30: whatever the inputs, calculate_intimacy returns the four factors
\* and an intimacy_score that is their sum clamped to [0, 100]
C30_ClampedSum ==
    response.op = "calculate_intimacy" =>
        /\ DOMAIN response.result =
               {"intimacy_score", "sentiment_factor", "frequency_factor",
                "flow_factor", "consecutive_factor"}
        /\ response.result.intimacy_score >= 0
        /\ response.result.intimacy_score <= ScoreCap
        /\ response.result.intimacy_score =
               IF FactorSum(response.result) < 0 THEN 0
               ELSE IF FactorSum(response.result) > ScoreCap THEN ScoreCap
               ELSE FactorSum(response.result)

\* a call with sentiment values below -1, a huge message count and an
\* extreme consecutive map, whose factors sum to less than 0
C30_Witness ==
    /\ response.op = "calculate_intimacy"
    /\ response.message_count = 1000000
    /\ response.consecutive_messages = (1 :> 1000000)
    /\ \E i \in 1..Len(response.sentiment_scores) :
           response.sentiment_scores[i] < -1000
    /\ FactorSum(response.result) < 0
    /\ response.result.intimacy_score = 0

\* the largest value of a consecutive-messages map, 0 for an empty map
LargestValue(map) ==
    LET values == {map[u] : u \in DOMAIN map}
    IN  IF values = {} THEN 0
        ELSE CHOOSE v \in values : \A w \in values : w <= v

\* C31: the consecutive factor is 10 when the largest value m of the map is
\* at most 3, 7 when 3 < m <= 5, 4 when 5 < m <= 10 and 0 when m > 10, and
\* a map with a larger m never gets a larger factor
C31_ConsecutiveBands ==
    response.op = "calculate_intimacy" =>
        LET m == LargestValue(response.consecutive_messages)
        IN  /\ response.result.consecutive_factor =
                   IF m <= 3 THEN 10000
                   ELSE IF m <= 5 THEN 7000
                   ELSE IF m <= 10 THEN 4000
                   ELSE 0
            /\ \A c \in ConsecutiveInputs :
                   LargestValue(c) >= m =>
                       calculate_intimacy(response.sentiment_scores,
                                          response.message_count,
                                          response.last_sender_id,
                                          response.current_user_id,
                                          c).consecutive_factor
                           <= response.result.consecutive_factor

\* a call whose map holds a small count for the first user and the largest
\* count, in the third band, for the second
C31_Witness ==
    /\ response.op = "calculate_intimacy"
    /\ response.consecutive_messages = (1 :> 2) @@ (2 :> 10)
    /\ response.result.consecutive_factor = 4000

\* C32: no step of any operation removes a stored row or changes its
\* sender, receiver or content: the messages table only grows
C32_MessagesOnlyGrow ==
    [][/\ Len(messages') >= Len(messages)
       /\ \A k \in 1..Len(messages) :
              /\ messages'[k].id = messages[k].id
              /\ messages'[k].sender_id = messages[k].sender_id
              /\ messages'[k].receiver_id = messages[k].receiver_id
              /\ messages'[k].content = messages[k].content]_vars

\* the friendship of a pair has just been removed while rows the pair
\* exchanged are stored, one of them read
C32_Witness ==
    /\ response.op = "remove_friend"
    /\ response.status_code = 204
    /\ friendships = <<>>
    /\ \E k \in 1..Len(messages) : messages[k].is_read

\* session s hands its own websocket the payload of the message it is
\* processing and goes back to receiving
Acknowledges(s) ==
    /\ response_data[s] # NoPayload
    /\ response_data'[s] = NoPayload
    /\ delivered'[s] = Append(delivered[s], response_data[s])

\* C33: the steps of one inbound event come in the order persist, update
\* the relationship aggregate, send to the recipient, acknowledge the
\* sender: the step that stores the row updates the aggregate and sends
\* nothing; a payload handed to a websocket is that of a row already
\* stored, and the aggregate is not touched any more; the acknowledgment is
\* handed over only when the delivery loop of the session has ended
C33_PipelineOrder ==
    /\ [][\A s \in Sessions :
            Persists(s) =>
                /\ delivered' = delivered
                /\ friendships' =
                       BumpFriendship(friendships, user_id[s], friend_id[s])]_vars
    /\ [][\A c \in Sessions :
            delivered'[c] # delivered[c] =>
                /\ Len(delivered'[c]) = Len(delivered[c]) + 1
                /\ delivered'[c][Len(delivered'[c])].id \in 1..Len(messages)
                /\ delivered'[c][Len(delivered'[c])] =
                       ResponseData(messages[delivered'[c][Len(delivered'[c])].id])
                /\ friendships' = friendships
                /\ messages' = messages]_vars
    /\ [][\A s \in Sessions :
            Acknowledges(s) => pc[s] = "echo" /\ iter[s] = NoFrame]_vars

\* a session has been acknowledged after its payload reached a websocket of
\* the recipient, whose friendship row counts the message
C33_Witness ==
    \E s, c \in Sessions :
        /\ s # c
        /\ Len(messages) = 1 /\ origin = <<s>>
        /\ pc[s] = "recv"
        /\ delivered[c] = <<ResponseData(messages[1])>>
        /\ delivered[s] = <<ResponseData(messages[1])>>
        /\ Len(friendships) = 1
        /\ friendships[1].interaction_count = 1

\* C34: every friendships row has a status among pending, accepted and
\* blocked, an intimacy_score within [0, 100] and an interaction_count of
\* 0 or more; an update_friendship request naming any other status is
\* answered 400 and leaves the table as it was
C34_RowsWellFormed ==
    /\ [](\A i \in 1..Len(friendships) :
            /\ friendships[i].status \in {"pending", "accepted", "blocked"}
            /\ friendships[i].intimacy_score >= 0
            /\ friendships[i].intimacy_score <= IntimacyCap
            /\ friendships[i].interaction_count >= 0)
    /\ [][(/\ response'.op = "update_friendship"
           /\ response'.status_code # 404
           /\ UpdateFriendshipRequest(response'.cur, response'.fid,
                                      response'.status)) =>
              IF response'.status \in {"pending", "accepted", "blocked"}
              THEN response'.status_code = 200
              ELSE /\ response'.status_code = 400
                   /\ friendships' = friendships]_vars

\* a request with an unknown status has just been rejected, on a row whose
\* score is at the cap and whose counter a message has raised past it
C34_Witness ==
    /\ response.op = "update_friendship"
    /\ response.status_code = 400
    /\ Len(friendships) = 1
    /\ friendships[1].intimacy_score = IntimacyCap
    /\ friendships[1].interaction_count > IntimacyCap
    /\ Len(messages) >= 1

\* C35: a send to one websocket of the recipient that never completes keeps
\* the payload neither from the recipient's other registered websockets nor
\* from the sender: a session that is delivering a payload eventually has
\* handed it to every registered websocket of the recipient whose client
\* reads, unless that websocket is unregistered or the session ends, and
\* eventually gets to the end of its acknowledgment
C35_FireAndForget ==
    /\ \A s \in Sessions : \A c \in Sessions \ Hanging :
           \A k \in 1..RegistryMessages :
               (/\ pc[s] = "sending"
                /\ response_data[s].id = k
                /\ c \in Channels(active_connections, friend_id[s]))
                   ~> (\/ \E i \in 1..Len(delivered[c]) : delivered[c][i].id = k
                       \/ c \notin Registered(active_connections)
                       \/ pc[s] \in Ended)
    /\ \A s \in Sessions \ Hanging :
           (pc[s] = "sending") ~> (pc[s] \in {"recv"} \cup Ended)

\* C36: the is_read flag of a stored row changes only in a
\* mark_messages_as_read request made by the receiver of the row for its
\* sender, and only from false to true; a row is stored unread
C36_ReadOnlyByReceiver ==
    /\ [][\A k \in 1..Len(messages) :
            /\ k <= Len(messages')
            /\ messages'[k].is_read # messages[k].is_read =>
                   /\ ~messages[k].is_read
                   /\ messages'[k].is_read
                   /\ response'.op = "mark_messages_as_read"
                   /\ response'.status_code = 200
                   /\ response'.cur = messages[k].receiver_id
                   /\ response'.fid = messages[k].sender_id
                   /\ MarkMessagesAsRead(response'.cur, response'.fid)]_vars
    /\ [][\A k \in (Len(messages) + 1)..Len(messages') :
            ~messages'[k].is_read]_vars

\* the sender of two stored rows has asked to mark the conversation read,
\* which marked nothing, after the receiver had marked the first row
C36_Witness ==
    /\ Len(messages) = 2
    /\ messages[1].is_read /\ ~messages[2].is_read
    /\ response.op = "mark_messages_as_read"
    /\ response.status_code = 200
    /\ response.cur = messages[2].sender_id
    /\ response.fid = messages[2].receiver_id
    /\ response.cur # response.fid
    /\ response.marked_as_read = 0

\* C37: the websocket of every session that is waiting for or processing
\* inbound payloads is registered under the user of the session
C37_RunningIsRegistered ==
    \A s \in Sessions :
        pc[s] \in {"recv", "sending", "echo"} =>
            s \in Channels(active_connections, user_id[s])

\* the number of times websocket c has been handed the payload of row k
TimesHanded(c, k) ==
    Cardinality({i \in 1..Len(delivered[c]) : delivered[c][i].id = k})

\* C38: the websocket of the session that stored a row is handed the
\* payload of the row exactly once, also when the session's peer is the
\* session's own user: never twice, and once as soon as the session has
\* gone on to its next receive
C38_OwnPayloadOnce ==
    \A k \in 1..Len(messages) :
        \A s \in Sessions :
            origin[k] = s =>
                /\ TimesHanded(s, k) <= 1
                /\ (pc[s] = "recv" \/ (pc[s] \in {"sending", "echo"}
                                        /\ response_data[s].id # k))
                       => TimesHanded(s, k) = 1

\* C39: a ranking request changes no friendships row, no messages row and
\* no entry of the connection registry, whether a score it reports is the
\* stored one or a recomputed one
C39_RankingReadOnly ==
    [][(/\ response'.op = "get_top_friends"
        /\ GetTopFriends(response'.cur, response'.limit, response'.days,
                         response'.now)) =>
           /\ friendships' = friendships
           /\ messages' = messages
           /\ active_connections' = active_connections]_vars

\* a ranking of two friends, one reported with the stored score of the row
\* and one with a recomputed score, from a table with messages
C39_Witness ==
    /\ response.op = "get_top_friends"
    /\ Len(response.body) = 2
    /\ Len(messages) > 0
    /\ \E e \in 1..2 :
           OrZero(FirstAccepted(response.cur,
                                response.body[e].friend_id).intimacy_score) = 0
    /\ \E e \in 1..2 :
           OrZero(FirstAccepted(response.cur,
                                response.body[e].friend_id).intimacy_score) > 0

====
